---- MODULE Spec2Model ----
(***************************************************************************)
(* A TLA+ model of the tax-compliance simulation core (src/core).         *)
(*                                                                         *)
(* Numbers.  The program computes in floating point; the model computes   *)
(* in fixed point.  A dimensionless real x (a rate, a probability in      *)
(* [0,1], a trait in [1,5], a belief in [0,100]) is the integer x * Fx.   *)
(* Money is in cents, so the compliance tolerance 0.01 is one cent.       *)
(* Products of two fixed-point numbers are divided by Fx once (FxMul).    *)
(***************************************************************************)
EXTENDS Integers, Sequences, FiniteSets, TLC

\* ------------------------------------------------------------------------
\* Arithmetic helpers
\* ------------------------------------------------------------------------

\* Resolution of the fixed-point representation: 1.0 is Fx.
Fx == 10 * 100

Max(a, b) == IF a >= b THEN a ELSE b

Min(a, b) == IF a <= b THEN a ELSE b

\* clip(value, low, high) of beliefs.py / filters.py / letter.py.
clip(value, low, high) == Max(low, Min(high, value))

\* Product of two fixed-point numbers, floor(a * b / Fx), computed from the
\* quotient and remainder of a so that no intermediate exceeds 32 bits.
FxMul(a, b) == (a \div Fx) * b + ((a % Fx) * b) \div Fx

\* int(x) of a non-negative fixed-point number: truncation.
FxInt(x) == x \div Fx

Range(s) == {s[k] : k \in 1..Len(s)}

RECURSIVE SeqSum(_)
SeqSum(s) == IF s = <<>> THEN 0 ELSE Head(s) + SeqSum(Tail(s))

RECURSIVE SetSum(_, _)
\* Sum of f[x] over the finite set S.
SetSum(f, S) ==
  IF S = {} THEN 0
  ELSE LET x == CHOOSE y \in S : TRUE IN f[x] + SetSum(f, S \ {x})

\* Insert v into the ascending sequence s after every element <= v.
RECURSIVE InsertAsc(_, _)
InsertAsc(v, s) ==
  IF s = <<>> THEN <<v>>
  ELSE IF v < Head(s) THEN <<v>> \o s
  ELSE <<Head(s)>> \o InsertAsc(v, Tail(s))

RECURSIVE SortAsc(_)
SortAsc(s) == IF s = <<>> THEN <<>> ELSE InsertAsc(Head(s), SortAsc(Tail(s)))

\* statistics.median / numpy.median of a non-empty list: the middle element,
\* or the mean of the two middle elements.
median(s) ==
  LET t == SortAsc(s)
      n == Len(t)
  IN IF n % 2 = 1 THEN t[(n + 1) \div 2]
     ELSE (t[n \div 2] + t[(n \div 2) + 1]) \div 2

\* The subsequence of s whose elements satisfy the membership test keep.
RECURSIVE SelectIn(_, _)
SelectIn(s, keep) ==
  IF s = <<>> THEN <<>>
  ELSE IF Head(s) \in keep THEN <<Head(s)>> \o SelectIn(Tail(s), keep)
  ELSE SelectIn(Tail(s), keep)

\* All sequences without repetition over the set S, of length k.
RECURSIVE Arrangements(_, _)
Arrangements(S, k) ==
  IF k = 0 THEN {<<>>}
  ELSE UNION {{<<x>> \o t : t \in Arrangements(S \ {x}, k - 1)} : x \in S}

\* ------------------------------------------------------------------------
\* Configuration (SimulationConfig.config_data).  The JSON files are read by
\* core/config.py; the values below are one configuration of the documented
\* shape, and Configs varies the entries the operations branch on.
\* ------------------------------------------------------------------------

\* Population size and the largest number of steps a run takes.
NAgents == 2

MaxSteps == 2

\* n hundredths as a fixed-point number: Pct(30) is 0.30.
Pct(n) == n * (Fx \div 100)

\* The integer n as a fixed-point number.
Real(n) == n * Fx

Occupations == {"private", "business"}

BehaviorTypes == {"honest", "dishonest"}

\* INTERVENTION_REGISTRY in registration (import) order.
RegisteredInterventions == <<"audit", "letter_deterrence", "call", "information">>

ErrorModelCfg ==
  [enabled |-> TRUE,
   private |-> [base |-> Pct(1) \div 2],
   business |-> [base |-> Pct(35), digi_low_bonus |-> Pct(10),
                 digi_high_reduction |-> Pct(10), cash_bonus |-> Pct(5),
                 advisor_reduction |-> Pct(10), micro_bonus |-> Pct(5),
                 high_risk_bonus |-> Pct(5)],
   pso_reduction_factor |-> Pct(20),
   trust_reduction_factor |-> Pct(20),
   norms_reduction_factor |-> Pct(20),
   min_probability |-> Pct(1) \div 10,
   max_probability |-> Pct(60),
   magnitude |-> [min |-> Pct(12), max |-> Pct(23)],
   under_report_prob |-> Pct(90)]

FiltersCfg ==
  [beta |-> [o \in Occupations |->
               [PN |-> Pct(30), SN |-> Pct(20), StN |-> Pct(20),
                PT |-> Pct(15), PSO |-> Pct(15)]],
   tci_weight |-> [honest |-> Real(1), dishonest |-> Pct(50)]]

SmeCfg ==
  [sectors |->
     [horeca |-> [risk |-> "high", high_risk_branches |-> {"cafe"}],
      it     |-> [risk |-> "low",  high_risk_branches |-> {}]],
   base_risk_baseline |-> Pct(20),
   delta_sector_high_risk |-> Pct(10),
   delta_branch_high_risk |-> Pct(5),
   delta_size_micro |-> Pct(5),
   delta_size_medium |-> 0 - Pct(5),
   delta_cash_intensive |-> Pct(10),
   delta_digi_high |-> 0 - Pct(5),
   delta_digi_low |-> Pct(5),
   delta_advisor_yes |-> 0 - Pct(5),
   delta_advisor_no |-> Pct(5),
   delta_audit_books |-> Pct(50),
   delta_audit_admin |-> 0 - Pct(30),
   opportunity |->
     [base |-> Pct(30), cash_bonus |-> Pct(15), low_digi_bonus |-> Pct(10),
      high_digi_penalty |-> Pct(10), micro_bonus |-> Pct(10),
      medium_penalty |-> 0 - Pct(5), high_risk_sector_bonus |-> Pct(10),
      min |-> Pct(5), max |-> Pct(80)]]

BeliefUpdateCfg ==
  [mu |-> Pct(85), audit_signal_strength |-> Pct(30),
   perception_weight |-> Pct(5), audit_prob_response_delta |-> Real(10),
   audit_target_prob |-> Pct(50), audit_prob_drift_rate |-> Pct(50)]

TrustUpdateCfg == [sigma_trust |-> Real(1), p_unfair |-> Pct(30)]

PsoUpdateCfg ==
  [sigma_pso |-> Real(1),
   phone_delta_satisfied |-> Real(1),
   phone_delta_dissatisfied |-> Real(1),
   webcare_delta |-> Real(1),
   huba_delta |-> Real(2),
   pso_drift_rate |-> Pct(50),
   occ |-> [o \in Occupations |->
              [phone_prob |-> 0, phone_satisfied_prob |-> Pct(80),
               webcare_mean |-> Real(3), webcare_std |-> 0,
               huba_prob |-> 0]]]

NormUpdateCfg ==
  [social_norm_scale |-> [o \in Occupations |-> Real(1)],
   societal_norm_scale |-> [o \in Occupations |-> Real(1)]]

\* Effects of a letter / call / information campaign: every key present, so
\* that every branch of apply_trait_deltas is taken.
LetterEffects ==
  [subjective_audit_prob_permanent |-> Real(60),
   subjective_audit_prob_temporary |-> Real(10),
   trust_delta |-> 0 - Real(3)]

CallEffects ==
  [satisfied |-> [subjective_audit_prob_temporary |-> Real(5),
                  pso_delta |-> Real(3)],
   dissatisfied |-> [pso_delta |-> 0 - Real(3)]]

InformationEffects ==
  [subjective_audit_prob_delta |-> 0 - Real(70),
   social_norm_delta |-> Real(3),
   societal_norm_delta |-> 0 - Real(3),
   personal_norm_delta |-> Real(3)]

InterventionsCfg ==
  [audit |-> [enabled |-> TRUE,
              rate |-> [private |-> Pct(50), business |-> Pct(50)],
              selection_strategy |-> "random",
              audit_type_probs |-> [admin |-> Pct(72), books |-> Pct(28)]],
   letter_deterrence |-> [enabled |-> FALSE,
              rate |-> [private |-> Pct(50), business |-> Pct(50)],
              selection_strategy |-> "risk_based",
              effects |-> LetterEffects],
   call |-> [enabled |-> FALSE,
              rate |-> [private |-> Pct(50), business |-> Pct(50)],
              selection_strategy |-> "risk_based",
              satisfied_prob |-> Pct(80),
              effects |-> CallEffects],
   information |-> [enabled |-> FALSE,
              rate |-> [private |-> Pct(50), business |-> Pct(50)],
              effects |-> InformationEffects]]

DefaultCfg ==
  [simulation |-> [n_agents |-> NAgents, n_steps |-> MaxSteps, business_ratio |-> Pct(50)],
   network |-> [topology |-> "lognormal", homophily |-> Pct(80),
                degree_min |-> 0, degree_max |-> 2],
   enforcement |-> [tax_rate |-> Pct(30), penalty_rate |-> Real(3)],
   social |-> [social_influence |-> Pct(50), pso_boost |-> 0, trust_boost |-> 0],
   error_model |-> ErrorModelCfg,
   filters |-> FiltersCfg,
   sme |-> SmeCfg,
   belief_strategy |-> "custom",
   belief_update |-> BeliefUpdateCfg,
   trust_update |-> TrustUpdateCfg,
   pso_update |-> PsoUpdateCfg,
   norm_update |-> NormUpdateCfg,
   interventions |-> InterventionsCfg]

\* ------------------------------------------------------------------------
\* Random draws.  Every call of the random number generator is a choice from
\* a small set that lets each comparison in the code go both ways.
\* ------------------------------------------------------------------------

\* np.random.random(): a value in [0,1).
UDraws == {0, Fx - 1}

\* np.random.uniform(lo, hi).
UniformDraws(lo, hi) == {lo, hi}

\* np.random.normal(mean, std).
NormalDraws(mean, std) == {mean - 2 * std, mean + 2 * std}

\* ------------------------------------------------------------------------
\* Agents (core/agents).  An agent is a record; agents of both occupations
\* carry the SME fields, which only business agents read.
\* ------------------------------------------------------------------------

\* The tolerance of is_compliant, 0.01, in cents.
Eps == 1

\* norm = lambda val: (val - 1) / 4
norm(val) == (val - Fx) \div 4

\* BaseAgent.evaded_income
evaded_income(a) == a.true_income - a.declared_income

\* BaseAgent.is_compliant
is_compliant(a) == a.declared_income >= a.true_income - Eps

\* PrivateAgent.calculate_opportunity / SMEAgent.calculate_opportunity
calculate_opportunity(a, config) ==
  IF a.occupation = "private" THEN Pct(10)
  ELSE
    LET opp == config.sme.opportunity
        phi == opp.base
               + (IF a.cash_intensity THEN opp.cash_bonus ELSE 0)
               + (IF a.digitalization = "Low" THEN opp.low_digi_bonus
                  ELSE IF a.digitalization = "High" THEN 0 - opp.high_digi_penalty
                  ELSE 0)
               + (IF a.size_class = "Micro" THEN opp.micro_bonus
                  ELSE IF a.size_class = "Medium" THEN opp.medium_penalty
                  ELSE 0)
               + (IF config.sme.sectors[a.sector].risk = "high"
                  THEN opp.high_risk_sector_bonus ELSE 0)
    IN clip(phi, opp.min, opp.max)

\* BaseAgent.get_evasion_rate
get_evasion_rate(a, config) ==
  LET max_evadable == (calculate_opportunity(a, config) * a.true_income) \div Fx
  IN IF max_evadable <= 0 THEN 0
     ELSE Max(0, Min(Fx, (evaded_income(a) * Fx) \div max_evadable))

\* SMEAgent.calculate_base_risk
calculate_base_risk(a, config) ==
  LET sme == config.sme
      sector_config == sme.sectors[a.sector]
      r == sme.base_risk_baseline
           + (IF sector_config.risk = "high" THEN sme.delta_sector_high_risk ELSE 0)
           + (IF a.branch \in sector_config.high_risk_branches
              THEN sme.delta_branch_high_risk ELSE 0)
           + (IF a.size_class = "Micro" THEN sme.delta_size_micro
              ELSE IF a.size_class = "Medium" THEN sme.delta_size_medium ELSE 0)
           + (IF a.cash_intensity THEN sme.delta_cash_intensive ELSE 0)
           + (IF a.digitalization = "High" THEN sme.delta_digi_high
              ELSE IF a.digitalization = "Low" THEN sme.delta_digi_low ELSE 0)
           + (IF a.has_advisor THEN sme.delta_advisor_yes ELSE sme.delta_advisor_no)
           + (IF a.audit_history = "boekenonderzoek" THEN sme.delta_audit_books
              ELSE IF a.audit_history = "administratief" THEN sme.delta_audit_admin
              ELSE 0)
  IN clip(r, Pct(5), Pct(90))

\* update_audit_history that keeps the score it had
update_audit_history_stale(a, audit_type, config) ==
  IF audit_type \in {"administratief", "boekenonderzoek"}
  THEN [a EXCEPT !.audit_history = audit_type]
  ELSE a

\* SMEAgent.update_audit_history
update_audit_history(a, audit_type, config) ==
  IF audit_type \in {"administratief", "boekenonderzoek"}
  THEN LET b == [a EXCEPT !.audit_history = audit_type]
       IN [b EXCEPT !.base_risk_score = calculate_base_risk(b, config)]
  ELSE a

\* ------------------------------------------------------------------------
\* The unintentional-error model of honest agents (core/errors.py)
\* ------------------------------------------------------------------------

calculate_error_probability(a, config) ==
  LET error_cfg == config.error_model
      biz == error_cfg.business
      base0 ==
        IF a.occupation = "private" THEN error_cfg.private.base
        ELSE biz.base
             + (IF a.digitalization = "Low" THEN biz.digi_low_bonus
                ELSE IF a.digitalization = "High" THEN 0 - biz.digi_high_reduction
                ELSE 0)
             + (IF a.cash_intensity THEN biz.cash_bonus ELSE 0)
             - (IF a.has_advisor THEN biz.advisor_reduction ELSE 0)
             + (IF a.size_class = "Micro" THEN biz.micro_bonus ELSE 0)
             + (IF config.sme.sectors[a.sector].risk = "high"
                THEN biz.high_risk_bonus ELSE 0)
      base1 == FxMul(base0, Fx - FxMul(error_cfg.pso_reduction_factor, norm(a.traits.pso)))
      base2 == FxMul(base1, Fx - FxMul(error_cfg.trust_reduction_factor, norm(a.traits.p_trust)))
      base3 == FxMul(base2, Fx - FxMul(error_cfg.norms_reduction_factor, norm(a.traits.personal_norms)))
  IN Max(error_cfg.min_probability, Min(error_cfg.max_probability, base3))

\* calculate_error_amount, given its two draws: the magnitude and the
\* uniform draw that decides the direction.
calculate_error_amount(a, config, magnitude, u_direction) ==
  LET direction == IF u_direction < config.error_model.under_report_prob THEN 1 ELSE 0 - 1
  IN ((a.true_income * magnitude) \div Fx) * direction

\* ErrorDeclared without the lower bound: declared = true_income - error.
ErrorDeclared_unclamped(a, error_amount) == a.true_income - error_amount

\* The declared income apply_error returns when an error occurred.
ErrorDeclared(a, error_amount) == Max(0, a.true_income - error_amount)

\* apply_error adding the error to the income instead of subtracting it.
apply_error_added(a, config, u_error, magnitude, u_direction) ==
  IF ~config.error_model.enabled
  THEN [declared |-> a.true_income, error_occurred |-> FALSE, error_amount |-> 0]
  ELSE IF u_error >= calculate_error_probability(a, config)
  THEN [declared |-> a.true_income, error_occurred |-> FALSE, error_amount |-> 0]
  ELSE LET error_amount == calculate_error_amount(a, config, magnitude, u_direction)
       IN [declared |-> Max(0, a.true_income + error_amount),
           error_occurred |-> TRUE, error_amount |-> error_amount]

\* apply_error: (declared, error_occurred, error_amount).
apply_error(a, config, u_error, magnitude, u_direction) ==
  IF ~config.error_model.enabled
  THEN [declared |-> a.true_income, error_occurred |-> FALSE, error_amount |-> 0]
  ELSE IF u_error >= calculate_error_probability(a, config)
  THEN [declared |-> a.true_income, error_occurred |-> FALSE, error_amount |-> 0]
  ELSE LET error_amount == calculate_error_amount(a, config, magnitude, u_direction)
       IN [declared |-> ErrorDeclared(a, error_amount),
           error_occurred |-> TRUE, error_amount |-> error_amount]

\* ------------------------------------------------------------------------
\* Filters (core/filters.py)
\* ------------------------------------------------------------------------

opportunity_filter(a, config) ==
  (a.true_income * calculate_opportunity(a, config)) \div Fx

normative_filter(a, max_concealable, config) ==
  LET beta == config.filters.beta[a.occupation]
      raw_tci == FxMul(beta.PN, norm(a.traits.personal_norms))
                 + FxMul(beta.SN, norm(a.traits.social_norms))
                 + FxMul(beta.StN, norm(a.traits.societal_norms))
                 + FxMul(beta.PT, norm(a.traits.p_trust))
                 + FxMul(beta.PSO, norm(a.traits.pso))
      beta_sum == beta.PN + beta.SN + beta.StN + beta.PT + beta.PSO
      tci0 == IF beta_sum > 0 THEN (raw_tci * Fx) \div beta_sum ELSE raw_tci
      tax_compliance_intention == Max(0, Min(Fx, tci0))
      tci_weight == config.filters.tci_weight[a.behavior_type]
  IN (max_concealable * (Fx - FxMul(tci_weight, tax_compliance_intention))) \div Fx

\* The prev_evasion_rate of the neighbours with a positive income, in
\* neighbour order.
RECURSIVE NeighborRates(_, _)
NeighborRates(ag, ns) ==
  IF ns = <<>> THEN <<>>
  ELSE IF ag[Head(ns)].true_income > 0
  THEN <<ag[Head(ns)].prev_evasion_rate>> \o NeighborRates(ag, Tail(ns))
  ELSE NeighborRates(ag, Tail(ns))

\* social_influence_filter reading the neighbours' current evasion rate
\* (from their declared_income) in place of their prev_evasion_rate.
social_influence_filter_live(ag, a, willingness, max_concealable, config) ==
  IF max_concealable <= 0 THEN 0
  ELSE
    LET own_rate == (willingness * Fx) \div max_concealable
        live == [i \in DOMAIN ag |->
                   [ag[i] EXCEPT !.prev_evasion_rate = get_evasion_rate(ag[i], config)]]
        neighbor_rates == NeighborRates(live, a.neighbors)
    IN IF a.neighbors = <<>> THEN willingness
       ELSE IF neighbor_rates = <<>> THEN willingness
       ELSE
         LET omega == config.social.social_influence
             median_rate == median(neighbor_rates)
             adjusted_rate == clip(FxMul(Fx - omega, own_rate) + FxMul(omega, median_rate), 0, Fx)
         IN (adjusted_rate * max_concealable) \div Fx

\* social_influence_filter; ag is the population, read for the neighbours.
social_influence_filter(ag, a, willingness, max_concealable, config) ==
  IF max_concealable <= 0 THEN 0
  ELSE
    LET own_rate == (willingness * Fx) \div max_concealable
        neighbor_rates == NeighborRates(ag, a.neighbors)
    IN IF a.neighbors = <<>> THEN willingness
       ELSE IF neighbor_rates = <<>> THEN willingness
       ELSE
         LET omega == config.social.social_influence
             median_rate == median(neighbor_rates)
             adjusted_rate == clip(FxMul(Fx - omega, own_rate) + FxMul(omega, median_rate), 0, Fx)
         IN (adjusted_rate * max_concealable) \div Fx

\* rational_evasion_rate deterring only when p exceeds the threshold
\* strictly; at the threshold itself it evades in full.
rational_evasion_rate_strict(a, config) ==
  LET p == (a.traits.subjective_audit_prob + a.temporary_audit_boost) \div 100
      threshold == (Fx * Fx) \div (Fx + config.enforcement.penalty_rate)
  IN IF p > threshold THEN 0 ELSE Fx

\* rational_evasion_rate working with the permanent belief alone
rational_evasion_rate_permanent(a, config) ==
  LET p == a.traits.subjective_audit_prob \div 100
      threshold == (Fx * Fx) \div (Fx + config.enforcement.penalty_rate)
  IN IF p >= threshold THEN 0 ELSE Fx

\* The evasion rate rational_choice_filter applies to a positive willingness.
rational_evasion_rate(a, config) ==
  LET p_raw == a.traits.subjective_audit_prob + a.temporary_audit_boost
      p == p_raw \div 100
      f == config.enforcement.penalty_rate
      rho == a.traits.risk_aversion
      threshold == (Fx * Fx) \div (Fx + f)
  IN IF p >= threshold THEN 0
     ELSE IF p <= 0 THEN Fx
     ELSE
       LET margin == ((threshold - p) * Fx) \div threshold
       IN IF margin < Pct(20)
          THEN LET rho_normalized == ((rho - Pct(50)) * Fx) \div Pct(450)
                   deterrence_chance == FxMul(Pct(20) - margin, rho_normalized)
               IN IF deterrence_chance > Pct(30) THEN 0 ELSE Fx
          ELSE Fx

rational_choice_filter(a, willingness, config) ==
  IF willingness <= 0 THEN 0
  ELSE (rational_evasion_rate(a, config) * willingness) \div Fx

\* ------------------------------------------------------------------------
\* Behaviours (core/behaviors.py).  decide returns the declared income and
\* the error_amount it leaves on the agent.
\* ------------------------------------------------------------------------

\* HonestBehavior.decide declaring one unit of currency less than computed.
HonestBehavior_decide_short(a, initial_step, config, u_error, magnitude, u_direction) ==
  IF initial_step
  THEN [declared |-> a.true_income, error_amount |-> a.error_amount]
  ELSE LET r == apply_error(a, config, u_error, magnitude, u_direction)
       IN [declared |-> r.declared - 100, error_amount |-> r.error_amount]

HonestBehavior_decide(a, initial_step, config, u_error, magnitude, u_direction) ==
  IF initial_step
  THEN [declared |-> a.true_income, error_amount |-> a.error_amount]
  ELSE LET r == apply_error(a, config, u_error, magnitude, u_direction)
       IN [declared |-> r.declared, error_amount |-> r.error_amount]

\* The value DishonestBehavior.decide returns for a final evasion amount.
DishonestDeclared(a, final_evasion) == Max(0, a.true_income - final_evasion)

DishonestBehavior_decide(ag, a, initial_step, config) ==
  LET max_concealable == opportunity_filter(a, config)
      w0 == normative_filter(a, max_concealable, config)
      willingness == IF initial_step THEN w0
                     ELSE social_influence_filter(ag, a, w0, max_concealable, config)
      final_evasion == rational_choice_filter(a, willingness, config)
  IN [declared |-> DishonestDeclared(a, final_evasion), error_amount |-> 0]

\* ------------------------------------------------------------------------
\* Audit selection strategies (core/strategies/audit.py).  A strategy's
\* select is modelled by the set of lists it can return: one list per
\* outcome of its random draws.  agents is a list of agent ids, ag the
\* population the ids refer to.
\* ------------------------------------------------------------------------

\* n_audits rounding the product up instead of truncating it.
n_audits_ceil(agents, rate) == Max(1, FxInt(Len(agents) * rate + Fx - 1))

\* n_audits = max(1, int(len(agents) * rate))
n_audits(agents, rate) == Max(1, FxInt(Len(agents) * rate))

\* [candidates[i] for i in np.random.choice(len(candidates), size=k,
\* replace=False)]: the lists that k distinct indices can pick.
ChoiceWithoutReplacement(candidates, k) ==
  {[j \in 1..k |-> candidates[idx[j]]] : idx \in Arrangements(1..Len(candidates), k)}

RandomAudit_select(agents, rate) ==
  IF n_audits(agents, rate) >= Len(agents) THEN {agents}
  ELSE ChoiceWithoutReplacement(agents, n_audits(agents, rate))

\* Insert x into the list s, sorted by descending key, after every element
\* whose key is at least key[x].
RECURSIVE InsertDesc(_, _, _)
InsertDesc(x, s, key) ==
  IF s = <<>> THEN <<x>>
  ELSE IF key[x] > key[Head(s)] THEN <<x>> \o s
  ELSE <<Head(s)>> \o InsertDesc(x, Tail(s), key)

\* sorted(s, key=...) without reverse=True: ascending order.
RECURSIVE sorted_forward(_, _)
sorted_forward(s, key) ==
  IF s = <<>> THEN <<>>
  ELSE LET rest == sorted_forward(Tail(s), key)
           below == SelectIn(rest, {x \in Range(rest) : key[x] < key[Head(s)]})
           above == SelectIn(rest, {x \in Range(rest) : key[x] >= key[Head(s)]})
       IN below \o <<Head(s)>> \o above

\* sorted(s, key=..., reverse=True): descending, equal keys in input order.
RECURSIVE sorted_reverse(_, _)
sorted_reverse(s, key) ==
  IF s = <<>> THEN <<>>
  ELSE InsertDesc(s[Len(s)], sorted_reverse(SubSeq(s, 1, Len(s) - 1), key), key)

\* s[:n] for n >= 0.
Take(s, n) == SubSeq(s, 1, Min(n, Len(s)))

\* The agents of the list with the given occupation, in list order.
OfOccupation(ag, agents, occ) ==
  SelectIn(agents, {i \in Range(agents) : ag[i].occupation = occ})

\* n_private of RiskBasedAudit.select.
risk_n_private(ag, agents, rate) ==
  IF agents # <<>>
  THEN (n_audits(agents, rate) * Len(OfOccupation(ag, agents, "private"))) \div Len(agents)
  ELSE 0

\* The business part of RiskBasedAudit.select's result.
risk_business_part(ag, agents, rate) ==
  LET business == OfOccupation(ag, agents, "business")
      n_business == n_audits(agents, rate) - risk_n_private(ag, agents, rate)
      key == [i \in Range(business) |-> ag[i].base_risk_score]
  IN IF business # <<>> /\ n_business > 0
     THEN Take(sorted_reverse(business, key), n_business)
     ELSE <<>>

RiskBasedAudit_select(ag, agents, rate) ==
  LET private == OfOccupation(ag, agents, "private")
      n_private == risk_n_private(ag, agents, rate)
      private_parts ==
        IF private # <<>> /\ n_private > 0
        THEN ChoiceWithoutReplacement(private, Min(n_private, Len(private)))
        ELSE {<<>>}
  IN {pp \o risk_business_part(ag, agents, rate) : pp \in private_parts}

\* NetworkAudit.select reads a.closeness_centrality of every agent of the
\* list: an AttributeError when an agent has no such attribute.
NetworkAudit_raises(ag, agents) ==
  \E i \in Range(agents) : "closeness_centrality" \notin ag[i].attributes

NetworkAudit_select(ag, agents, rate) ==
  LET key == [i \in Range(agents) |-> ag[i].closeness_centrality]
  IN {Take(sorted_reverse(agents, key), n_audits(agents, rate))}

\* AUDIT_STRATEGIES
AUDIT_STRATEGIES == {"random", "risk", "network"}

\* strategy.select(agents, rate) for get_audit_strategy(name).
AuditStrategy_select(name, ag, agents, rate) ==
  CASE name = "random" -> RandomAudit_select(agents, rate)
    [] name = "risk" -> RiskBasedAudit_select(ag, agents, rate)
    [] name = "network" -> NetworkAudit_select(ag, agents, rate)

\* ------------------------------------------------------------------------
\* Interventions (core/interventions)
\* ------------------------------------------------------------------------

\* The value reset_agents stores for every registered intervention.
None == [type |-> "None"]

\* reset_agents: agent.interventions = {name: None for name in registered}
ResetInterventions == [name \in Range(RegisteredInterventions) |-> None]

\* AuditIntervention.select: the lists it can return.
AuditIntervention_select(ag, agents, config) ==
  LET private == OfOccupation(ag, agents, "private")
      business == OfOccupation(ag, agents, "business")
      name == config.selection_strategy
  IN {sp \o sb : sp \in AuditStrategy_select(name, ag, private, config.rate.private),
                 sb \in AuditStrategy_select(name, ag, business, config.rate.business)}

\* Whether AuditIntervention.select raises: an unknown strategy name
\* (get_audit_strategy) or a missing closeness_centrality.
AuditIntervention_select_raises(ag, agents, config) ==
  \/ config.selection_strategy \notin AUDIT_STRATEGIES
  \/ /\ config.selection_strategy = "network"
     /\ NetworkAudit_raises(ag, agents)

\* The penalty without the penalty rate: the evaded tax alone.
audit_penalty_tax_only(a, config) ==
  evaded_income(a) * config.enforcement.tax_rate

\* penalty = evaded_income * tax_rate * penalty_rate, in units of one
\* cent / Fx.
audit_penalty(a, config) ==
  FxMul(evaded_income(a) * config.enforcement.tax_rate, config.enforcement.penalty_rate)

\* The outcome AuditIntervention.apply records.
audit_outcome(a, config) ==
  [type |-> "audit",
   compliant |-> is_compliant(a),
   penalty |-> IF ~is_compliant(a) THEN audit_penalty(a, config) ELSE 0]

\* The audit types np.random.choice can return under audit_type_probs.
AuditTypes(config) ==
  {t \in {"administratief", "boekenonderzoek"} :
     IF t = "administratief" THEN config.audit_type_probs.admin > 0
     ELSE config.audit_type_probs.books > 0}

\* AuditIntervention.apply: the agent afterwards.  Only SME agents have
\* update_audit_history.
AuditIntervention_apply(a, config, audit_type) ==
  LET b == [a EXCEPT !.interventions.audit = audit_outcome(a, config)]
  IN IF a.occupation = "business"
     THEN update_audit_history(b, audit_type, config)
     ELSE b

\* effects.get(key, 0.0)
EffectsGet(effects, key) == IF key \in DOMAIN effects THEN effects[key] ELSE 0

\* delta_trait without the clip.
delta_trait_unclamped(value, delta) == value + delta

\* A [1,5] trait after a delta of apply_trait_deltas.
delta_trait(value, delta) == clip(value + delta, Real(1), Real(5))

\* The permanent belief after apply_trait_deltas.
delta_audit_prob(value, permanent_delta) == clip(value + permanent_delta, 0, Real(100))

\* apply_trait_deltas that leaves the temporary boost as it was
apply_trait_deltas_permanent(a, effects) ==
  [a EXCEPT !.traits.subjective_audit_prob =
              delta_audit_prob(@, EffectsGet(effects, "subjective_audit_prob_permanent"))]

\* apply_trait_deltas: the agent afterwards.
apply_trait_deltas(a, effects) ==
  LET perm0 == EffectsGet(effects, "subjective_audit_prob_permanent")
      temporary_delta == EffectsGet(effects, "subjective_audit_prob_temporary")
      permanent_delta ==
        IF "subjective_audit_prob_delta" \in DOMAIN effects /\ perm0 = 0 /\ temporary_delta = 0
        THEN effects.subjective_audit_prob_delta ELSE perm0
      shifts == permanent_delta # 0 \/ temporary_delta # 0
      t == a.traits
      has(k) == k \in DOMAIN effects
      traits1 ==
        [t EXCEPT
           !.subjective_audit_prob =
              IF shifts THEN delta_audit_prob(@, permanent_delta) ELSE @,
           !.pso = IF has("pso_delta") THEN delta_trait(@, effects.pso_delta) ELSE @,
           !.p_trust = IF has("trust_delta") THEN delta_trait(@, effects.trust_delta) ELSE @,
           !.social_norms =
              IF has("social_norm_delta") THEN delta_trait(@, effects.social_norm_delta) ELSE @,
           !.societal_norms =
              IF has("societal_norm_delta") THEN delta_trait(@, effects.societal_norm_delta) ELSE @,
           !.personal_norms =
              IF has("personal_norm_delta") THEN delta_trait(@, effects.personal_norm_delta) ELSE @]
  IN [a EXCEPT !.traits = traits1,
               !.temporary_audit_boost = IF shifts THEN @ + temporary_delta ELSE @]

\* The selection rate of an agent for a letter or call.
outreach_rate(a, config, name) ==
  LET rate == config.rate[a.occupation]
      risk == IF config.selection_strategy = "risk_based"
              THEN Min(FxMul(rate, Fx + a.base_risk_score), Fx) ELSE rate
  IN IF name = "call" /\ config.selection_strategy = "risk_based"
        /\ a.prev_evasion_rate > Pct(30)
     THEN Min((risk * 3) \div 2, Fx)
     ELSE risk

\* The selection rate of the intervention name for agent a.
selection_rate(a, config, name) ==
  IF name = "information" THEN config.rate[a.occupation]
  ELSE outreach_rate(a, config, name)

\* Letter / call select read agent.base_risk_score under "risk_based".
Outreach_select_raises(ag, agents, config, name) ==
  /\ name \in {"letter_deterrence", "call"}
  /\ config.selection_strategy = "risk_based"
  /\ \E i \in Range(agents) : "base_risk_score" \notin ag[i].attributes

\* Letter / call / information select: the lists it can return, one draw
\* np.random.random() < rate per agent, in list order.
Outreach_select(ag, agents, config, name) ==
  {SelectIn(agents, S) :
     S \in {T \in SUBSET Range(agents) :
              \A i \in Range(agents) :
                 \E u \in UDraws : (i \in T) <=> (u < selection_rate(ag[i], config, name))}}

\* DeterrenceLetterIntervention.apply
Letter_apply(a, config) ==
  [apply_trait_deltas(a, config.effects) EXCEPT
     !.interventions.letter_deterrence = [type |-> "deterrence"]]

\* PhoneCallIntervention.apply, given its draw.
Call_apply(a, config, u_satisfied) ==
  LET is_satisfied == u_satisfied < config.satisfied_prob
      specific_effects == IF is_satisfied THEN config.effects.satisfied
                          ELSE config.effects.dissatisfied
  IN [apply_trait_deltas(a, specific_effects) EXCEPT
        !.interventions.call = [type |-> "call", satisfied |-> is_satisfied]]

\* InformationCampaignIntervention.apply
Information_apply(a, config) ==
  [apply_trait_deltas(a, config.effects) EXCEPT
     !.interventions.information = [type |-> "information"]]

\* ------------------------------------------------------------------------
\* Belief strategies (core/beliefs.py).  ag is the live population: the
\* agents earlier in update_all's loop have already been updated in it.
\* ------------------------------------------------------------------------

compute_compliance_score(a) ==
  IF evaded_income(a) = 0 THEN Fx
  ELSE IF a.true_income > 0 THEN 0 - ((evaded_income(a) * Fx) \div a.true_income)
  ELSE 0

\* agent.interventions.get("audit") is truthy.
WasAudited(a) == a.interventions.audit # None

\* HashimzadeStrategy.update_audit_belief_personal
Hashimzade_update_audit_belief_personal(a, u_audit) ==
  LET v == IF WasAudited(a)
           THEN (IF u_audit < Pct(50) THEN Real(100) ELSE 0)
           ELSE a.traits.subjective_audit_prob
  IN [a EXCEPT !.traits.subjective_audit_prob = clip(v, 0, Real(100))]

\* CustomStrategy.update_audit_belief_personal
update_audit_belief_personal(a, config, u_audit) ==
  LET old_prob == a.traits.subjective_audit_prob
      v == IF WasAudited(a)
           THEN IF u_audit < config.audit_target_prob
                THEN old_prob + config.audit_prob_response_delta
                ELSE old_prob - config.audit_prob_response_delta
           ELSE IF config.audit_prob_drift_rate > 0
                THEN old_prob + FxMul(config.audit_prob_drift_rate, a.initial_audit_prob - old_prob)
                ELSE old_prob
  IN [a EXCEPT !.traits.subjective_audit_prob = clip(v, 0, Real(100))]

\* [n.traits.subjective_audit_prob for n in neighbors]
RECURSIVE NeighborProbs(_, _)
NeighborProbs(ag, ns) ==
  IF ns = <<>> THEN <<>>
  ELSE <<ag[Head(ns)].traits.subjective_audit_prob>> \o NeighborProbs(ag, Tail(ns))

\* CustomStrategy.update_subjective_audit_prob
update_subjective_audit_prob(ag, a, neighbors, config, audited_neighbors) ==
  IF neighbors = <<>> THEN a
  ELSE
    LET p == a.traits.subjective_audit_prob
        audit_effect ==
          IF audited_neighbors # <<>>
          THEN (config.audit_signal_strength * Len(audited_neighbors) * (Real(100) - p))
                 \div (Fx * Len(neighbors))
          ELSE 0
        median_n == median(NeighborProbs(ag, neighbors))
        perception_effect == FxMul(config.perception_weight, median_n - p)
        social_update == FxMul(Fx - config.mu, audit_effect + perception_effect)
    IN [a EXCEPT !.traits.subjective_audit_prob = clip(p + social_update, 0, Real(100))]

\* CustomStrategy.update_trust
update_trust(a, config, u_unfair) ==
  IF ~WasAudited(a) THEN a
  ELSE
    LET v == IF a.interventions.audit.compliant
             THEN a.traits.p_trust + config.sigma_trust \div 2
             ELSE IF u_unfair < config.p_unfair
                  THEN a.traits.p_trust - config.sigma_trust
                  ELSE a.traits.p_trust
    IN [a EXCEPT !.traits.p_trust = clip(v, Real(1), Real(5))]

\* CustomStrategy.update_pso, given its four draws.
update_pso(a, config, u_phone, u_satisfied, satisfaction, u_huba) ==
  LET occ_cfg == config.occ[a.occupation]
      sigma_pso == config.sigma_pso
      multiplier == IF a.occupation = "business" THEN Fx ELSE Fx \div 2
      v0 == a.traits.pso
      v1 == IF u_phone < occ_cfg.phone_prob
            THEN IF u_satisfied < occ_cfg.phone_satisfied_prob
                 THEN v0 + FxMul(FxMul(config.phone_delta_satisfied, multiplier), sigma_pso)
                 ELSE v0 - FxMul(config.phone_delta_dissatisfied, sigma_pso)
            ELSE v0
      v2 == IF satisfaction > Real(3)
            THEN v1 + FxMul(config.webcare_delta, sigma_pso)
            ELSE v1 - FxMul(config.webcare_delta, sigma_pso)
      v3 == IF u_huba < occ_cfg.huba_prob THEN v2 + config.huba_delta ELSE v2
      v4 == IF config.pso_drift_rate > 0
            THEN v3 + FxMul(config.pso_drift_rate, a.initial_pso - v3)
            ELSE v3
  IN [a EXCEPT !.traits.pso = clip(v4, Real(1), Real(5))]

\* [compliance_scores.get(n.unique_id, 0) for n in neighbors]
RECURSIVE NeighborScores(_, _)
NeighborScores(scores, ns) ==
  IF ns = <<>> THEN <<>>
  ELSE <<scores[Head(ns)]>> \o NeighborScores(scores, Tail(ns))

\* CustomStrategy.update_social_norms
update_social_norms(a, neighbors, compliance_scores, config) ==
  IF neighbors = <<>> THEN a
  ELSE
    LET raw == SeqSum(NeighborScores(compliance_scores, neighbors)) \div Len(neighbors)
        scale == config.social_norm_scale[a.occupation]
    IN [a EXCEPT !.traits.social_norms = clip(@ + FxMul(raw, scale), Real(1), Real(5))]

\* CustomStrategy.update_societal_norms
update_societal_norms(a, societal_compliance, n_agents, config) ==
  LET normalized == ((2 * societal_compliance) \div n_agents) - Fx
      scale == config.societal_norm_scale[a.occupation]
  IN [a EXCEPT !.traits.societal_norms = clip(@ + FxMul(normalized, scale), Real(1), Real(5))]

\* The draws one BeliefStrategy.update can consume for agent a.  A draw the
\* code does not take on the path is fixed at 0.
BeliefDraws(config, a) ==
  LET custom == config.belief_strategy # "hashimzade"
      occ_cfg == config.pso_update.occ[a.occupation]
      all == [u_audit : UDraws, u_unfair : UDraws, u_phone : UDraws,
              u_satisfied : UDraws,
              satisfaction : NormalDraws(occ_cfg.webcare_mean, occ_cfg.webcare_std),
              u_huba : UDraws]
  IN {d \in all :
        /\ ~WasAudited(a) => d.u_audit = 0
        /\ ~(custom /\ WasAudited(a) /\ ~a.interventions.audit.compliant) => d.u_unfair = 0
        /\ ~custom => d.u_phone = 0 /\ d.u_huba = 0
                      /\ d.satisfaction = occ_cfg.webcare_mean - 2 * occ_cfg.webcare_std
        /\ ~(custom /\ d.u_phone < occ_cfg.phone_prob) => d.u_satisfied = 0}

\* CustomStrategy.update: agent i of the live population ag afterwards.
CustomStrategy_update(ag, i, context, config, d) ==
  LET neighbors == context.interaction_sets[i]
      audited_neighbors == SelectIn(neighbors, context.audited_agents)
      a1 == update_audit_belief_personal(ag[i], config.belief_update, d.u_audit)
      a2 == update_subjective_audit_prob(ag, a1, neighbors, config.belief_update, audited_neighbors)
      a3 == update_trust(a2, config.trust_update, d.u_unfair)
      a4 == update_pso(a3, config.pso_update, d.u_phone, d.u_satisfied, d.satisfaction, d.u_huba)
      a5 == update_social_norms(a4, neighbors, context.compliance_scores, config.norm_update)
  IN update_societal_norms(a5, context.societal_compliance, context.n_agents, config.norm_update)

\* HashimzadeStrategy.update doing what CustomStrategy.update does
HashimzadeStrategy_update_custom(ag, i, context, config, d) ==
  CustomStrategy_update(ag, i, context, config, d)

\* HashimzadeStrategy.update
HashimzadeStrategy_update(ag, i, context, config, d) ==
  Hashimzade_update_audit_belief_personal(ag[i], d.u_audit)

\* BELIEF_STRATEGIES
BELIEF_STRATEGIES == {"hashimzade", "custom"}

\* self.belief_strategy.update(agent, context)
BeliefStrategy_update(ag, i, context, config, d) ==
  IF config.belief_strategy = "hashimzade"
  THEN HashimzadeStrategy_update(ag, i, context, config, d)
  ELSE CustomStrategy_update(ag, i, context, config, d)

\* ------------------------------------------------------------------------
\* Network (core/network.py).  Agents are numbered from 1 in list order; an
\* edge list is a sequence of pairs <<u, v>>.
\* ------------------------------------------------------------------------

\* PrivateAgent.group_key / SMEAgent.group_key
group_key(a) == IF a.occupation = "private" THEN "private" ELSE a.sector

\* sample_degree: the values int(lognormal) clipped to [degree_min,
\* degree_max] can take.
sample_degree(net) == net.degree_min .. net.degree_max

\* current_deg[i] after the edges.
EdgeDegree(edges, i) ==
  Cardinality({k \in 1..Len(edges) : edges[k][1] = i \/ edges[k][2] = i})

\* Adjacent with the adjacency matrix never written: no pair is adjacent.
Adjacent_never(edges, i, j) == FALSE

\* adj[i, j] after the edges.
Adjacent(edges, i, j) ==
  \E k \in 1..Len(edges) : edges[k] = <<i, j>> \/ edges[k] = <<j, i>>

\* The edges (i, target) for the targets in order.
EdgesTo(i, targets) == [k \in 1..Len(targets) |-> <<i, targets[k]>>]

\* The number of picks from a candidate list of size n_cands for a quota.
PickCount(count, n_cands) == IF count <= 0 THEN 0 ELSE Min(count, n_cands)

\* numba_turn making up a shortfall of same-group candidates from the other
\* group
numba_turn_refill(i, edges, group_ids, target_degrees, homophily) ==
  LET needed == target_degrees[i] - EdgeDegree(edges, i)
      n_same == FxInt(needed * homophily)
      cands == {j \in 1..Len(group_ids) : j # i /\ ~Adjacent(edges, i, j)}
      same_cands == {j \in cands : group_ids[j] = group_ids[i]}
      other_cands == cands \ same_cands
      c_same == PickCount(n_same, Cardinality(same_cands))
  IN [needed |-> needed, n_same |-> n_same,
      same_cands |-> same_cands, other_cands |-> other_cands,
      c_same |-> c_same,
      c_other |-> PickCount(needed - c_same, Cardinality(other_cands))]

\* One iteration of compute_edges_numba's loop over the agents, for the
\* edges emitted so far: needed, n_same, the two candidate lists (as sets)
\* and the number of picks from each.
numba_turn(i, edges, group_ids, target_degrees, homophily) ==
  LET needed == target_degrees[i] - EdgeDegree(edges, i)
      n_same == FxInt(needed * homophily)
      cands == {j \in 1..Len(group_ids) : j # i /\ ~Adjacent(edges, i, j)}
      same_cands == {j \in cands : group_ids[j] = group_ids[i]}
      other_cands == cands \ same_cands
  IN [needed |-> needed, n_same |-> n_same,
      same_cands |-> same_cands, other_cands |-> other_cands,
      c_same |-> PickCount(n_same, Cardinality(same_cands)),
      c_other |-> PickCount(needed - n_same, Cardinality(other_cands))]

\* compute_edges_numba from agent i on: the edge lists it can return.  The
\* inner loop is a partial Fisher-Yates shuffle, which can leave any
\* arrangement of count distinct candidates.
RECURSIVE EdgesFrom(_, _, _, _, _)
EdgesFrom(i, edges, group_ids, target_degrees, homophily) ==
  IF i > Len(group_ids) THEN {edges}
  ELSE
    LET t == numba_turn(i, edges, group_ids, target_degrees, homophily)
    IN IF t.needed <= 0
       THEN EdgesFrom(i + 1, edges, group_ids, target_degrees, homophily)
       ELSE UNION {EdgesFrom(i + 1, edges \o EdgesTo(i, s) \o EdgesTo(i, o),
                             group_ids, target_degrees, homophily) :
                     s \in Arrangements(t.same_cands, t.c_same),
                     o \in Arrangements(t.other_cands, t.c_other)}

compute_edges_numba(group_ids, target_degrees, homophily) ==
  EdgesFrom(1, <<>>, group_ids, target_degrees, homophily)

\* group_by_sector: the agents of each group key, in list order.
group_by_sector(ag) ==
  [k \in {group_key(ag[i]) : i \in DOMAIN ag} |->
     SelectSeq([i \in DOMAIN ag |-> i], LAMBDA i : group_key(ag[i]) = k)]

\* graph.degree(i) of an nx.Graph held as a set of two-element sets.
graph_degree(graph, i) == Cardinality({e \in graph : i \in e})

\* add_edges picking any number of candidates up to count.
add_edges_upto(graph, i, candidates, count) ==
  {graph \cup {{i, c} : c \in chosen} :
     chosen \in {S \in SUBSET candidates : Cardinality(S) <= Max(count, 0)}}

\* add_edges: the graphs it can leave, np.random.choice without replacement
\* picking any min(count, len(candidates)) of the candidates.
add_edges(graph, i, candidates, count) ==
  LET capped == Min(count, Cardinality(candidates))
  IN IF capped <= 0 THEN {graph}
     ELSE {graph \cup {{i, c} : c \in chosen} :
             chosen \in {S \in SUBSET candidates : Cardinality(S) = capped}}

\* One iteration of build_lognormal_python's loop over the agents, for the
\* graph so far: needed, n_same, the same and other lists (as sets) its scan
\* of the groups collects, and the sizes add_edges samples.
python_turn(i, graph, ag, target_degrees, homophily) ==
  LET groups == group_by_sector(ag)
      needed == target_degrees[i] - graph_degree(graph, i)
      n_same == FxInt(needed * homophily)
      free(k) == {a \in Range(groups[k]) : a # i /\ {a, i} \notin graph}
      same == UNION {free(k) : k \in {g \in DOMAIN groups : g = group_key(ag[i])}}
      other == UNION {free(k) : k \in {g \in DOMAIN groups : g # group_key(ag[i])}}
  IN [needed |-> needed, n_same |-> n_same,
      same_cands |-> same, other_cands |-> other,
      c_same |-> Max(Min(n_same, Cardinality(same)), 0),
      c_other |-> Max(Min(needed - n_same, Cardinality(other)), 0)]

\* build_lognormal_python from agent i on, sample_degree() returning
\* target_degrees[i] at agent i's turn: the graphs it can return.
RECURSIVE PythonFrom(_, _, _, _, _)
PythonFrom(i, graph, ag, target_degrees, homophily) ==
  IF i > Len(ag) THEN {graph}
  ELSE
    LET t == python_turn(i, graph, ag, target_degrees, homophily)
    IN IF t.needed <= 0
       THEN PythonFrom(i + 1, graph, ag, target_degrees, homophily)
       ELSE UNION {PythonFrom(i + 1, g2, ag, target_degrees, homophily) :
                     g2 \in UNION {add_edges(g1, i, t.other_cands, t.needed - t.n_same) :
                                     g1 \in add_edges(graph, i, t.same_cands, t.n_same)}}

build_lognormal_python(ag, target_degrees, homophily) ==
  PythonFrom(1, {}, ag, target_degrees, homophily)

\* list(graph[agent.unique_id]) after add_edges_from: the neighbours of i in
\* the order the edges were added.
RECURSIVE NeighborsOf(_, _)
NeighborsOf(edges, i) ==
  IF edges = <<>> THEN <<>>
  ELSE (IF Head(edges)[1] = i THEN <<Head(edges)[2]>>
        ELSE IF Head(edges)[2] = i THEN <<Head(edges)[1]>>
        ELSE <<>>) \o NeighborsOf(Tail(edges), i)

\* NetworkBuilder.builders
Topologies == {"lognormal", "erdos", "powerlaw"}

\* build_lognormal once the degrees are sampled: the populations with their
\* neighbour lists, one per outcome of the edge sampling.
LinkedBy(ag, net, target_degrees) ==
  LET ids == DOMAIN ag
      group_ids == [i \in ids |-> group_key(ag[i])]
  IN {[i \in ids |-> [ag[i] EXCEPT !.neighbors = NeighborsOf(edges, i)]] :
        edges \in compute_edges_numba(group_ids, target_degrees, net.homophily)}

\* build_lognormal: one population per outcome of the degree and edge
\* sampling.
build_lognormal(ag, net) ==
  UNION {LinkedBy(ag, net, target_degrees) :
           target_degrees \in [DOMAIN ag -> sample_degree(net)]}

\* ------------------------------------------------------------------------
\* The orchestrator (core/model.py): state
\* ------------------------------------------------------------------------

Agents == 1..NAgents

\* list(self.agents): the agents in creation order.
AgentList == [k \in 1..NAgents |-> k]

VARIABLES
  pc,                         \* position in __init__ / step
  cfg,                        \* self.config.config_data
  agents,                     \* the agents' fields, by unique_id
  current_step,               \* self.current_step
  pending,                    \* agents shuffle_do has not yet stepped
  active_pos,                 \* position of run_all in self.active
  results,                    \* run_all's results, by intervention name
  intervened_this_step,       \* self.intervened_this_step
  penalties_this_step,        \* self.penalties_this_step
  penalties_split_this_step,  \* self.penalties_split_this_step
  context,                    \* update_norms' UpdateContext
  belief_pos,                 \* position of update_all in the agent list
  collected,                  \* number of records the datacollector holds
  last_record,                \* the datacollector's latest record
  failure,                    \* the exception that ended the run, or "none"
  opportunity_cache,          \* sim_cache of SMEAgent.calculate_opportunity
  call_args,                  \* arguments of a direct call of a select or update_all
  call_result,                \* what the direct call returned
  np_stream,                  \* the values numpy's seeded global generator yields
  np_pos,                     \* how many of them the run has consumed
  run,                        \* which of the two runs with one seed is running
  sampled,                    \* what construction sampled from the seeded generator
  metrics,                    \* the datacollector's records of the run
  first_metrics               \* the records of the first run

modelVars ==
  <<pc, cfg, agents, current_step, pending, active_pos, results,
    intervened_this_step, penalties_this_step, penalties_split_this_step,
    context, belief_pos, collected, last_record, failure, opportunity_cache>>

callVars == <<call_args, call_result>>

seedVars == <<np_stream, np_pos, run, sampled, metrics, first_metrics>>

vars == <<modelVars, callVars, seedVars>>

\* ------------------------------------------------------------------------
\* Construction inputs: configurations and sampled agents
\* ------------------------------------------------------------------------

\* Custom beliefs, random audits, error model off.
CfgAudit ==
  [DefaultCfg EXCEPT !.error_model.enabled = FALSE]

\* Hashimzade beliefs, random audits, error model on: one step.
CfgErrAudit ==
  [DefaultCfg EXCEPT
     !.simulation.n_steps = 1,
     !.belief_strategy = "hashimzade"]

\* Hashimzade beliefs, risk-based audits and every outreach intervention,
\* boosts at construction: one step.
CfgOutreach ==
  [DefaultCfg EXCEPT
     !.simulation.n_steps = 1,
     !.belief_strategy = "hashimzade",
     !.error_model.enabled = FALSE,
     !.social.pso_boost = Real(1),
     !.social.trust_boost = 0 - Real(1),
     !.interventions.audit.selection_strategy = "risk",
     !.interventions.letter_deterrence.enabled = TRUE,
     !.interventions.letter_deterrence.selection_strategy = "random",
     !.interventions.call.enabled = TRUE,
     !.interventions.call.selection_strategy = "random",
     !.interventions.information.enabled = TRUE]

\* No intervention, error model off.
CfgQuiet ==
  [DefaultCfg EXCEPT
     !.error_model.enabled = FALSE,
     !.interventions.audit.enabled = FALSE]

\* No intervention, error model off, and every lottery of the
\* service-orientation update live: one step.
CfgService ==
  [DefaultCfg EXCEPT
     !.simulation.n_steps = 1,
     !.error_model.enabled = FALSE,
     !.interventions.audit.enabled = FALSE,
     !.pso_update.occ =
        [o \in Occupations |->
           [phone_prob |-> Pct(10), phone_satisfied_prob |-> Pct(80),
            webcare_mean |-> Real(3), webcare_std |-> Real(1),
            huba_prob |-> Pct(1)]]]

\* No intervention, Hashimzade beliefs, error model on with errors of up to
\* 150% of the income.
CfgNoisy ==
  [DefaultCfg EXCEPT
     !.belief_strategy = "hashimzade",
     !.error_model.magnitude.max = Pct(150),
     !.interventions.audit.enabled = FALSE]

\* Audits by network centrality.
CfgNetwork ==
  [DefaultCfg EXCEPT
     !.error_model.enabled = FALSE,
     !.interventions.audit.selection_strategy = "network"]

\* Risk-based letters and calls, no audits: one step.
CfgRiskOutreach ==
  [DefaultCfg EXCEPT
     !.simulation.n_steps = 1,
     !.belief_strategy = "hashimzade",
     !.error_model.enabled = FALSE,
     !.interventions.audit.enabled = FALSE,
     !.interventions.letter_deterrence.enabled = TRUE,
     !.interventions.call.enabled = TRUE]

\* Random audits and calls, the letter and the information campaign absent
\* from the interventions section: one step.
CfgAbsent ==
  [DefaultCfg EXCEPT
     !.simulation.n_steps = 1,
     !.error_model.enabled = FALSE,
     !.interventions =
        [audit |-> InterventionsCfg.audit,
         call |-> [InterventionsCfg.call EXCEPT
                     !.enabled = TRUE, !.selection_strategy = "random"]]]

\* Hashimzade beliefs, random audits and random letters whose only effect is
\* a temporary delta of 30 points, error model off: n_steps steps.
CfgBoost ==
  [DefaultCfg EXCEPT
     !.belief_strategy = "hashimzade",
     !.error_model.enabled = FALSE,
     !.interventions.letter_deterrence.enabled = TRUE,
     !.interventions.letter_deterrence.selection_strategy = "random",
     !.interventions.letter_deterrence.effects =
        [subjective_audit_prob_temporary |-> Real(30)]]

Configs ==
  {CfgAudit, CfgErrAudit, CfgOutreach, CfgQuiet, CfgService, CfgNoisy, CfgNetwork,
   CfgRiskOutreach, CfgAbsent, CfgBoost}

\* AgentTraits with every [1,5] trait at one level.  The dataclass names two
\* fields perceived_service_orientation and perceived_trustworthiness; every
\* reader and writer in core/ calls them pso and p_trust, as here.
Traits(level, audit_prob) ==
  [personal_norms |-> level, subjective_audit_prob |-> audit_prob,
   pso |-> level, p_trust |-> level, social_norms |-> level,
   societal_norms |-> level, risk_aversion |-> Real(3)]

\* Three attributes the code reads (filters.py:66, beliefs.py:94 and 148,
\* interventions/letter.py:27) that no __init__ of this source tree assigns.
\* They start as the specification describes the agent: no temporary boost,
\* and the sampled belief and service orientation as the fixed baselines.
BaselineAttributes(traits) ==
  [temporary_audit_boost |-> 0,
   initial_audit_prob |-> traits.subjective_audit_prob,
   initial_pso |-> traits.pso]

\* The fields BaseAgent.__init__ sets, for sampled traits and behaviour.
\* attributes is the set of optional attributes the object has;
\* closeness_centrality and, for a private agent, base_risk_score hold a
\* placeholder that is read only when the attribute is in that set.
BaseAgent(occupation, behavior_type, traits, income) ==
  [occupation |-> occupation, behavior_type |-> behavior_type, traits |-> traits,
   true_income |-> income, declared_income |-> 0, neighbors |-> <<>>,
   interventions |-> ResetInterventions, prev_evasion_rate |-> 0,
   error_amount |-> 0,
   temporary_audit_boost |-> BaselineAttributes(traits).temporary_audit_boost,
   initial_audit_prob |-> BaselineAttributes(traits).initial_audit_prob,
   initial_pso |-> BaselineAttributes(traits).initial_pso,
   attributes |-> {}, closeness_centrality |-> 0, base_risk_score |-> 0,
   size_class |-> "", sector |-> "", branch |-> "", cash_intensity |-> FALSE,
   digitalization |-> "", has_advisor |-> FALSE, audit_history |-> ""]

\* PrivateAgent.__init__ for one outcome of its sampling.
PrivateAgent(behavior_type, traits, income) ==
  BaseAgent("private", behavior_type, traits, income)

\* SMEAgent.__init__ for one outcome of its sampling: sme holds what the
\* sample_* methods returned.
SMEAgent(behavior_type, traits, income, sme, config) ==
  LET a == [BaseAgent("business", behavior_type, traits, income) EXCEPT
              !.declared_income = income,
              !.size_class = sme.size_class, !.sector = sme.sector,
              !.branch = sme.branch, !.cash_intensity = sme.cash_intensity,
              !.digitalization = sme.digitalization,
              !.has_advisor = sme.has_advisor, !.audit_history = sme.audit_history,
              !.attributes = {"base_risk_score"}]
  IN [a EXCEPT !.base_risk_score = calculate_base_risk(a, config)]

\* The private agents construction can sample.
PrivateKinds ==
  {PrivateAgent("honest", Traits(Real(3), Real(20)), 1000000),
   PrivateAgent("dishonest", Traits(Real(1), 0), 1000000)}

\* The business agents construction can sample.
BusinessKinds(config) ==
  {SMEAgent("honest", Traits(Real(3), Real(20)), 500000,
            [size_class |-> "Small", sector |-> "it", branch |-> "software",
             cash_intensity |-> FALSE, digitalization |-> "High",
             has_advisor |-> TRUE, audit_history |-> "geen"], config),
   SMEAgent("dishonest", Traits(Real(1), 0), 1000000,
            [size_class |-> "Micro", sector |-> "horeca", branch |-> "cafe",
             cash_intensity |-> TRUE, digitalization |-> "Low",
             has_advisor |-> FALSE, audit_history |-> "administratief"], config)}

\* ------------------------------------------------------------------------
\* The orchestrator: construction (TaxComplianceModel.__init__)
\* ------------------------------------------------------------------------

\* create_agents: the populations it can sample, n_private private agents
\* first and the business agents after them.
create_agents(config) ==
  LET n_agents == config.simulation.n_agents
      n_business == FxInt(n_agents * config.simulation.business_ratio)
      n_private == n_agents - n_business
  IN {kinds \in [1..n_agents -> PrivateKinds \cup BusinessKinds(config)] :
        \A i \in 1..n_agents :
          kinds[i].occupation = (IF i <= n_private THEN "private" ELSE "business")}

\* apply_boosts, for one agent.
apply_boosts(a, config) ==
  [a EXCEPT !.traits.pso = clip(@ + config.social.pso_boost, Real(1), Real(5)),
            !.traits.p_trust = clip(@ + config.social.trust_boost, Real(1), Real(5))]

\* behavior.decide(agent, initial_step=True)
InitialDecide(ag, a, config) ==
  IF a.behavior_type = "honest"
  THEN HonestBehavior_decide(a, TRUE, config, 0, 0, 0)
  ELSE DishonestBehavior_decide(ag, a, TRUE, config)

\* initialize_evasion_rates, for one agent.
initialize_evasion_rates(ag, a, config) ==
  LET r == InitialDecide(ag, a, config)
      evasion == a.true_income - r.declared
      opportunity == (calculate_opportunity(a, config) * a.true_income) \div Fx
  IN [a EXCEPT !.prev_evasion_rate =
                  IF opportunity > 0 THEN clip((evasion * Fx) \div opportunity, 0, Fx) ELSE 0,
               !.error_amount = r.error_amount]

\* InterventionManager.__init__: the enabled interventions, in registry order.
\* cfg = interventions_cfg.get(name); cfg and cfg["enabled"]
ConfigEnabled(config, name) ==
  name \in DOMAIN config.interventions /\ config.interventions[name].enabled

\* InterventionManager.active with the registry walked in reverse.
ActiveInterventions_reversed(config) ==
  LET active == SelectIn(RegisteredInterventions,
                         {name \in Range(RegisteredInterventions) : ConfigEnabled(config, name)})
  IN [k \in 1..Len(active) |-> active[Len(active) + 1 - k]]

ActiveInterventions(config) ==
  SelectIn(RegisteredInterventions,
           {name \in Range(RegisteredInterventions) : ConfigEnabled(config, name)})

\* What the sim_cache of SMEAgent.calculate_opportunity holds once the method
\* was called on every business agent: the agent and the value returned.
CachedOpportunities(ag, config) ==
  {<<i, calculate_opportunity(ag[i], config)>> :
     i \in {j \in DOMAIN ag : ag[j].occupation = "business"}}

\* The populations __init__ can leave for one sample of create_agents and of
\* the target degrees: apply_boosts, build_network, initialize_evasion_rates.
ConstructedWith(kinds, config, target_degrees) ==
  LET created == [i \in DOMAIN kinds |-> apply_boosts(kinds[i], config)]
  IN {[i \in DOMAIN linked |-> initialize_evasion_rates(linked, linked[i], config)] :
        linked \in LinkedBy(created, config.network, target_degrees)}

\* The populations __init__ can leave for one sample of create_agents.
Constructed(kinds, config) ==
  UNION {ConstructedWith(kinds, config, target_degrees) :
           target_degrees \in [DOMAIN kinds -> sample_degree(config.network)]}

NoResults ==
  [name \in Range(RegisteredInterventions) |->
     [present |-> FALSE, agents |-> <<>>, outcomes |-> <<>>]]

NoIntervened ==
  [name \in Range(RegisteredInterventions) |-> [present |-> FALSE, ids |-> {}]]

NoContext ==
  [interaction_sets |-> <<>>, compliance_scores |-> <<>>, societal_compliance |-> 0,
   audited_agents |-> {}, n_agents |-> 0]

NoRecord == [Step |-> 0]

\* No step has run: the counters and per-step fields as __init__ leaves them.
StepIdle ==
  /\ current_step = 0
  /\ pending = {}
  /\ active_pos = 0
  /\ results = NoResults
  /\ intervened_this_step = NoIntervened
  /\ penalties_this_step = 0
  /\ penalties_split_this_step = <<0, 0>>
  /\ belief_pos = 0
  /\ collected = 0
  /\ last_record = NoRecord
  /\ failure = "none"
  /\ opportunity_cache = {}

\* The model before __init__ has run.
ModelInit ==
  /\ pc = "new"
  /\ cfg = DefaultCfg
  /\ agents = <<>>
  /\ context = NoContext
  /\ StepIdle

\* No direct call is being made.
CallIdle ==
  /\ call_args = [op |-> "none"]
  /\ call_result = [done |-> FALSE]

\* No pair of runs is being compared.
SeedIdle ==
  /\ np_stream = <<>>
  /\ np_pos = 0
  /\ run = 0
  /\ sampled = <<>>
  /\ metrics = <<>>
  /\ first_metrics = <<>>

Init == ModelInit /\ CallIdle /\ SeedIdle

\* The business ratios of the configurations explored.
BusinessRatios == {0, Pct(50), Real(1)}

\* TaxComplianceModel.__init__ for the configuration and the population it
\* samples and links.
ConstructModel(config, population) ==
  /\ pc = "new"
  /\ cfg' = config
  /\ agents' = population
  /\ pc' = "ready"
  /\ opportunity_cache' = CachedOpportunities(population, config)
  /\ UNCHANGED <<current_step, pending, active_pos, results, intervened_this_step,
                 penalties_this_step, penalties_split_this_step, context,
                 belief_pos, collected, last_record, failure>>

Construct ==
  /\ pc = "new"
  /\ \E base \in Configs, ratio \in BusinessRatios :
       LET config == [base EXCEPT !.simulation.business_ratio = ratio]
       IN \E kinds \in create_agents(config) :
            \E population \in Constructed(kinds, config) :
              ConstructModel(config, population)
  /\ UNCHANGED <<callVars, seedVars>>

\* ------------------------------------------------------------------------
\* The orchestrator: one step (TaxComplianceModel.step)
\* ------------------------------------------------------------------------

\* step(), up to the shuffle: the counter and the prev_evasion_rate
\* snapshot.
step_entry ==
  /\ pc = "ready"
  /\ current_step' = current_step + 1
  /\ agents' = [i \in Agents |->
                  [agents[i] EXCEPT !.prev_evasion_rate = get_evasion_rate(agents[i], cfg)]]
  /\ pending' = Agents
  /\ pc' = "decide"
  /\ opportunity_cache' = opportunity_cache \cup CachedOpportunities(agents, cfg)
  /\ UNCHANGED <<cfg, active_pos, results, intervened_this_step, penalties_this_step,
                 penalties_split_this_step, context, belief_pos, collected,
                 last_record, failure>>

\* One iteration of run() without an argument: n_steps calls of step().
BeginStep ==
  /\ pc = "ready"
  /\ current_step < cfg.simulation.n_steps
  /\ step_entry

StepBegin == BeginStep /\ UNCHANGED <<callVars, seedVars>>

\* behavior.decide(agent) for the draws it can consume.
Decide(ag, a, config, u_error, magnitude, u_direction) ==
  IF a.behavior_type = "honest"
  THEN HonestBehavior_decide(a, FALSE, config, u_error, magnitude, u_direction)
  ELSE DishonestBehavior_decide(ag, a, FALSE, config)

\* Whether decide draws for an error, and whether it then draws its amount.
DrawsError(a, config) == a.behavior_type = "honest" /\ config.error_model.enabled

DrawsAmount(a, config, u_error) ==
  DrawsError(a, config) /\ u_error < calculate_error_probability(a, config)

\* The draws behavior.decide(agent) can consume.  A draw the code does not
\* take on the path is fixed at 0.
DecideDraws(a, config) ==
  LET mag == config.error_model.magnitude
  IN {d \in [u_error : UDraws, magnitude : {0} \cup UniformDraws(mag.min, mag.max),
             u_direction : UDraws] :
        /\ ~DrawsError(a, config) => d.u_error = 0
        /\ IF DrawsAmount(a, config, d.u_error)
           THEN d.magnitude \in UniformDraws(mag.min, mag.max)
           ELSE d.magnitude = 0 /\ d.u_direction = 0}

\* BaseAgent.step of agent i, one of those shuffle_do has yet to visit.
StepAgent(i, d) ==
  /\ pc = "decide"
  /\ i \in pending
  /\ LET r == Decide(agents, agents[i], cfg, d.u_error, d.magnitude, d.u_direction)
     IN agents' = [agents EXCEPT ![i].declared_income = r.declared,
                                 ![i].error_amount = r.error_amount]
  /\ pending' = pending \ {i}
  /\ UNCHANGED <<opportunity_cache, pc, cfg, current_step, active_pos, results, intervened_this_step,
                 penalties_this_step, penalties_split_this_step, context,
                 belief_pos, collected, last_record, failure>>

AgentStep(i) ==
  /\ pc = "decide"
  /\ i \in pending
  /\ \E d \in DecideDraws(agents[i], cfg) : StepAgent(i, d)
  /\ UNCHANGED <<callVars, seedVars>>

\* reset_agents leaving every agent's outcomes of the step before in place.
reset_agents_kept ==
  /\ pc = "decide"
  /\ pending = {}
  /\ results' = NoResults
  /\ active_pos' = 1
  /\ pc' = "interventions"
  /\ UNCHANGED <<opportunity_cache, cfg, agents, current_step, pending, intervened_this_step,
                 penalties_this_step, penalties_split_this_step, context, belief_pos,
                 collected, last_record, failure>>

\* reset_agents entered while shuffle_do still has agents to visit.
reset_agents_early ==
  /\ pc = "decide"
  /\ agents' = [i \in Agents |-> [agents[i] EXCEPT !.interventions = ResetInterventions]]
  /\ results' = NoResults
  /\ active_pos' = 1
  /\ pc' = "interventions"
  /\ UNCHANGED <<opportunity_cache, cfg, current_step, pending, intervened_this_step,
                 penalties_this_step, penalties_split_this_step, context, belief_pos,
                 collected, last_record, failure>>

\* run_interventions, first statement: reset_agents.
reset_agents ==
  /\ pc = "decide"
  /\ pending = {}
  /\ agents' = [i \in Agents |-> [agents[i] EXCEPT !.interventions = ResetInterventions]]
  /\ results' = NoResults
  /\ active_pos' = 1
  /\ pc' = "interventions"
  /\ UNCHANGED <<opportunity_cache, cfg, current_step, pending, intervened_this_step, penalties_this_step,
                 penalties_split_this_step, context, belief_pos, collected,
                 last_record, failure>>

ResetAgents == reset_agents /\ UNCHANGED <<callVars, seedVars>>

\* intervention.select(list(model.agents), cfg): the lists it can return.
Intervention_select(name, ag, config) ==
  IF name = "audit" THEN AuditIntervention_select(ag, AgentList, config.interventions[name])
  ELSE Outreach_select(ag, AgentList, config.interventions[name], name)

Intervention_select_raises(name, ag, config) ==
  IF name = "audit"
  THEN AuditIntervention_select_raises(ag, AgentList, config.interventions[name])
  ELSE Outreach_select_raises(ag, AgentList, config.interventions[name], name)

\* The draws one apply of the intervention can consume.
ApplyDraws(name, config) ==
  IF name = "audit" THEN AuditTypes(config.interventions[name])
  ELSE IF name = "call" THEN UDraws
  ELSE {0}

\* intervention.apply(agent, model, cfg): the agent afterwards.
Intervention_apply(name, a, config, d) ==
  CASE name = "audit" -> AuditIntervention_apply(a, config, d)
    [] name = "letter_deterrence" -> Letter_apply(a, config.interventions[name])
    [] name = "call" -> Call_apply(a, config.interventions[name], d)
    [] name = "information" -> Information_apply(a, config.interventions[name])

\* The loop of run_all over the selected agents, from position k on: the
\* population afterwards and the outcomes, in order.
RECURSIVE ApplyAll(_, _, _, _, _, _)
ApplyAll(name, ag, selected, config, draws, k) ==
  IF k > Len(selected) THEN [ag |-> ag, outcomes |-> <<>>]
  ELSE LET i == selected[k]
           b == Intervention_apply(name, ag[i], config, draws[k])
           rest == ApplyAll(name, [ag EXCEPT ![i] = b], selected, config, draws, k + 1)
       IN [ag |-> rest.ag, outcomes |-> <<b.interventions[name]>> \o rest.outcomes]

\* One iteration of run_all: select, then apply to every selected agent.
\* An exception raised by select ends the step and the run.
RunIntervention ==
  /\ pc = "interventions"
  /\ active_pos <= Len(ActiveInterventions(cfg))
  /\ LET name == ActiveInterventions(cfg)[active_pos]
     IN IF Intervention_select_raises(name, agents, cfg)
        THEN /\ failure' = IF name = "audit"
                              /\ cfg.interventions[name].selection_strategy \notin AUDIT_STRATEGIES
                           THEN "ValueError" ELSE "AttributeError"
             /\ pc' = "failed"
             /\ UNCHANGED <<agents, results, active_pos>>
        ELSE /\ \E selected \in Intervention_select(name, agents, cfg) :
                  \E draws \in [1..Len(selected) -> ApplyDraws(name, cfg)] :
                    LET r == ApplyAll(name, agents, selected, cfg, draws, 1)
                    IN /\ agents' = r.ag
                       /\ results' = [results EXCEPT ![name] =
                                        [present |-> TRUE, agents |-> selected,
                                         outcomes |-> r.outcomes]]
             /\ active_pos' = active_pos + 1
             /\ UNCHANGED <<pc, failure>>
  /\ UNCHANGED <<opportunity_cache, cfg, current_step, pending, intervened_this_step, penalties_this_step,
                 penalties_split_this_step, context, belief_pos, collected, last_record>>
  /\ UNCHANGED <<callVars, seedVars>>

\* outcome.get("penalty", 0)
OutcomePenalty(o) == IF "penalty" \in DOMAIN o THEN o.penalty ELSE 0

\* sum(o.get("penalty", 0) for o in outcomes)
RECURSIVE PenaltySum(_)
PenaltySum(outcomes) ==
  IF outcomes = <<>> THEN 0
  ELSE OutcomePenalty(Head(outcomes)) + PenaltySum(Tail(outcomes))

\* SplitSum counting the penalties of either occupation
SplitSum_either(ag, data, private, k) == PenaltySum(data.outcomes)

\* The penalties of one intervention's outcomes that fall on agents of the
\* occupation, from position k on (the loop of run_interventions).
RECURSIVE SplitSum(_, _, _, _)
SplitSum(ag, data, private, k) ==
  IF k > Len(data.outcomes) THEN 0
  ELSE (IF /\ k <= Len(data.agents)
           /\ OutcomePenalty(data.outcomes[k]) > 0
           /\ (ag[data.agents[k]].occupation = "private") = private
        THEN OutcomePenalty(data.outcomes[k]) ELSE 0)
       + SplitSum(ag, data, private, k + 1)

\* The rest of run_interventions: the step's aggregates.
aggregate_interventions ==
  /\ pc = "interventions"
  /\ active_pos > Len(ActiveInterventions(cfg))
  /\ LET names == {n \in Range(RegisteredInterventions) : results[n].present}
     IN /\ intervened_this_step' =
             [n \in Range(RegisteredInterventions) |->
                [present |-> results[n].present, ids |-> Range(results[n].agents)]]
        /\ penalties_this_step' =
             SetSum([n \in names |-> PenaltySum(results[n].outcomes)], names)
        /\ penalties_split_this_step' =
             <<SetSum([n \in names |-> SplitSum(agents, results[n], TRUE, 1)], names),
               SetSum([n \in names |-> SplitSum(agents, results[n], FALSE, 1)], names)>>
  /\ results' = NoResults
  /\ pc' = "update_norms"
  /\ UNCHANGED <<opportunity_cache, cfg, agents, current_step, pending, active_pos, context, belief_pos,
                 collected, last_record, failure>>

AggregateInterventions == aggregate_interventions /\ UNCHANGED <<callVars, seedVars>>

\* The sublists of the list s, each in list order: the interaction sets the
\* mask np.random.random(len(neighbors)) < 0.5 can leave.
SubLists(s) == {SelectIn(s, T) : T \in SUBSET Range(s)}

\* The interaction sets update_norms can draw for the population.
InteractionSets(ag) ==
  {sets \in [DOMAIN ag -> UNION {SubLists(ag[i].neighbors) : i \in DOMAIN ag}] :
     \A i \in DOMAIN ag : sets[i] \in SubLists(ag[i].neighbors)}

\* The UpdateContext update_norms builds.
UpdateContext(ag, sets, audited_agents) ==
  LET scores == [i \in DOMAIN ag |-> compute_compliance_score(ag[i])]
  IN [interaction_sets |-> sets,
      compliance_scores |-> scores,
      societal_compliance |-> SetSum(scores, DOMAIN ag),
      audited_agents |-> audited_agents,
      n_agents |-> Cardinality(DOMAIN ag)]

\* self.intervened_this_step.get("audit", set())
AuditedAgents(intervened) ==
  IF intervened["audit"].present THEN intervened["audit"].ids ELSE {}

\* update_norms up to the call of update_all.
update_norms(sets) ==
  /\ pc = "update_norms"
  /\ context' = UpdateContext(agents, sets, AuditedAgents(intervened_this_step))
  /\ belief_pos' = 1
  /\ pc' = "update_all"
  /\ UNCHANGED <<opportunity_cache, cfg, agents, current_step, pending, active_pos, results,
                 intervened_this_step, penalties_this_step, penalties_split_this_step,
                 collected, last_record, failure>>

UpdateNormsBegin ==
  /\ pc = "update_norms"
  /\ \E sets \in InteractionSets(agents) : update_norms(sets)
  /\ UNCHANGED <<callVars, seedVars>>

\* One iteration of BeliefStrategy.update_all: the population afterwards.
update_one(ag, i, ctx, config, d) ==
  [ag EXCEPT ![i] = BeliefStrategy_update(ag, i, ctx, config, d)]

\* BeliefStrategy.update_all over the list, draws[i] being agent i's draws.
RECURSIVE update_all(_, _, _, _, _)
update_all(ag, list, ctx, config, draws) ==
  IF list = <<>> THEN ag
  ELSE update_all(update_one(ag, Head(list), ctx, config, draws[Head(list)]),
                  Tail(list), ctx, config, draws)

\* The iteration of update_all in the model's step.
update_next(d) ==
  /\ pc = "update_all"
  /\ belief_pos <= NAgents
  /\ agents' = update_one(agents, AgentList[belief_pos], context, cfg, d)
  /\ belief_pos' = belief_pos + 1
  /\ UNCHANGED <<opportunity_cache, pc, cfg, current_step, pending, active_pos, results,
                 intervened_this_step, penalties_this_step, penalties_split_this_step,
                 context, collected, last_record, failure>>

BeliefUpdate ==
  /\ pc = "update_all"
  /\ belief_pos <= NAgents
  /\ \E d \in BeliefDraws(cfg, agents[AgentList[belief_pos]]) : update_next(d)
  /\ UNCHANGED <<callVars, seedVars>>

\* The ids of the agents of one occupation.
IdsOf(ag, occ) == {i \in DOMAIN ag : ag[i].occupation = occ}

\* calc_tax_gap: per occupation, the sum of evaded_income * tax_rate
\* (in cents * Fx).
calc_tax_gap(ag, config) ==
  LET gap(occ) == SetSum([i \in IdsOf(ag, occ) |->
                            evaded_income(ag[i]) * config.enforcement.tax_rate],
                         IdsOf(ag, occ))
  IN <<gap("private"), gap("business")>>

\* calc_compliance_rate: per occupation, the share of compliant agents, 0.0
\* for an occupation without agents.
calc_compliance_rate(ag) ==
  LET rate(occ) ==
        IF IdsOf(ag, occ) = {} THEN 0
        ELSE (Cardinality({i \in IdsOf(ag, occ) : is_compliant(ag[i])}) * Fx)
               \div Cardinality(IdsOf(ag, occ))
  IN <<rate("private"), rate("business")>>

\* calc_audits_split
calc_audits_split(ag, intervened) ==
  LET audited_ids == IF intervened["audit"].present THEN intervened["audit"].ids ELSE {}
  IN <<Cardinality(audited_ids \cap IdsOf(ag, "private")),
       Cardinality(audited_ids \cap IdsOf(ag, "business"))>>

\* calc_mkb_error_gap
calc_mkb_error_gap(ag, config) ==
  SetSum([i \in IdsOf(ag, "business") |-> ag[i].error_amount * config.enforcement.tax_rate],
         IdsOf(ag, "business"))

\* min(a.declared_income / max(a.true_income, 1), 1.0)
declaration_ratio(a) ==
  IF a.declared_income >= Max(a.true_income, 1) THEN Fx
  ELSE (a.declared_income * Fx) \div Max(a.true_income, 1)

\* calc_avg_declaration_ratio with 0.0 for an occupation without agents.
calc_avg_declaration_ratio_zero(ag) ==
  LET avg_ratio(occ) ==
        IF IdsOf(ag, occ) = {} THEN 0
        ELSE SetSum([i \in IdsOf(ag, occ) |-> declaration_ratio(ag[i])], IdsOf(ag, occ))
               \div Cardinality(IdsOf(ag, occ))
  IN <<avg_ratio("private"), avg_ratio("business")>>

\* calc_avg_declaration_ratio: per occupation, the mean declared share of the
\* true income, 1.0 for an occupation without agents.
calc_avg_declaration_ratio(ag) ==
  LET avg_ratio(occ) ==
        IF IdsOf(ag, occ) = {} THEN Fx
        ELSE SetSum([i \in IdsOf(ag, occ) |-> declaration_ratio(ag[i])], IdsOf(ag, occ))
               \div Cardinality(IdsOf(ag, occ))
  IN <<avg_ratio("private"), avg_ratio("business")>>

\* The morale of one agent, in percent: (0.18 * norm(social_norms) + 0.23 *
\* norm(societal_norms) + 0.27 * norm(pso) + 0.32 * norm(p_trust)) * 100.
morale(a) ==
  18 * norm(a.traits.social_norms) + 23 * norm(a.traits.societal_norms)
    + 27 * norm(a.traits.pso) + 32 * norm(a.traits.p_trust)

\* calc_tax_morale: per occupation, the mean morale, 0.0 for an occupation
\* without agents (and the scalar 0.0 for a model without agents).
calc_tax_morale(ag) ==
  LET avg(occ) ==
        IF IdsOf(ag, occ) = {} THEN 0
        ELSE SetSum([i \in IdsOf(ag, occ) |-> morale(ag[i])], IdsOf(ag, occ))
               \div Cardinality(IdsOf(ag, occ))
  IN IF DOMAIN ag = {} THEN <<0, 0>> ELSE <<avg("private"), avg("business")>>

\* calc_avg_four: per occupation, the mean evasion rate of the agents that
\* are not honest and have an opportunity, 0.0 when there is none.
calc_avg_four(ag, config) ==
  LET rated(occ) == {i \in IdsOf(ag, occ) :
                       /\ ag[i].behavior_type # "honest"
                       /\ calculate_opportunity(ag[i], config) > 0}
      avg(occ) ==
        IF rated(occ) = {} THEN 0
        ELSE SetSum([i \in rated(occ) |-> get_evasion_rate(ag[i], config)], rated(occ))
               \div Cardinality(rated(occ))
  IN <<avg("private"), avg("business")>>

\* The record datacollector.collect(self) appends.
Record(ag, config, step, intervened, penalties_split) ==
  [Step |-> step,
   Tax_Gap |-> calc_tax_gap(ag, config),
   Compliance_Rate |-> calc_compliance_rate(ag),
   Avg_Declaration_Ratio |-> calc_avg_declaration_ratio(ag),
   Tax_Morale |-> calc_tax_morale(ag),
   Avg_FOUR |-> calc_avg_four(ag, config),
   Audits |-> calc_audits_split(ag, intervened),
   Penalties |-> penalties_split,
   MKB_Error_Gap |-> calc_mkb_error_gap(ag, config)]

\* The end of update_all, then datacollector.collect(self).
collect ==
  /\ pc = "update_all"
  /\ belief_pos > NAgents
  /\ last_record' = Record(agents, cfg, current_step, intervened_this_step,
                           penalties_split_this_step)
  /\ collected' = collected + 1
  /\ context' = NoContext
  /\ pc' = "ready"
  /\ opportunity_cache' = {}
  /\ UNCHANGED <<cfg, agents, current_step, pending, active_pos, results,
                 intervened_this_step, penalties_this_step, penalties_split_this_step,
                 belief_pos, failure>>

Collect == collect /\ UNCHANGED <<callVars, seedVars>>

Next ==
  \/ Construct
  \/ StepBegin
  \/ \E i \in Agents : AgentStep(i)
  \/ ResetAgents
  \/ RunIntervention
  \/ AggregateInterventions
  \/ UpdateNormsBegin
  \/ BeliefUpdate
  \/ Collect

Spec == Init /\ [][Next]_vars

\* ------------------------------------------------------------------------
\* Properties of the step machine (specification Spec)
\* ------------------------------------------------------------------------

\* A step has completed and the next has not begun.
AfterStep == pc = "ready" /\ current_step >= 1

\* C3: every agent's declared_income is at least 0, at construction and
\* after every decision of every step, whatever the error or the evasion.
C3_DeclaredNonNegative ==
  \A i \in DOMAIN agents : agents[i].declared_income >= 0

\* C3 witness: after a step, an honest agent whose error exceeded its income
\* declares exactly 0.
C3_Witness ==
  /\ AfterStep
  /\ \E i \in DOMAIN agents :
       /\ agents[i].behavior_type = "honest"
       /\ agents[i].error_amount > agents[i].true_income
       /\ agents[i].declared_income = 0

C5_TraitsClamped ==
  \A i \in DOMAIN agents :
    LET t == agents[i].traits
    IN /\ t.subjective_audit_prob >= 0 /\ t.subjective_audit_prob <= Real(100)
       /\ \A v \in {t.personal_norms, t.social_norms, t.societal_norms, t.pso, t.p_trust} :
            v >= Real(1) /\ v <= Real(5)

\* C5 witness: after a step, an agent that received a letter has its trust
\* held at the lower end of the range, and an agent that received the
\* information campaign has its audit belief held at 0.
C5_Witness ==
  /\ AfterStep
  /\ \E i \in DOMAIN agents :
       /\ agents[i].interventions.letter_deterrence # None
       /\ agents[i].traits.p_trust = Real(1)
  /\ \E i \in DOMAIN agents :
       /\ agents[i].interventions.information # None
       /\ agents[i].traits.subjective_audit_prob = 0

\* The population consists of honest private agents only.
HonestPrivateOnly ==
  /\ pc # "new"
  /\ \A i \in DOMAIN agents :
       agents[i].occupation = "private" /\ agents[i].behavior_type = "honest"

\* The record of a step shows full private compliance and no tax gap.
FullCompliance ==
  /\ last_record.Compliance_Rate[1] = Fx
  /\ last_record.Tax_Gap = <<0, 0>>

\* C6 as stated: with honest private agents only and no audits, the record
\* of every step has private compliance rate 1.0 and tax gap 0.0.
C6_HonestFullCompliance ==
  (HonestPrivateOnly /\ ~cfg.interventions.audit.enabled /\ collected >= 1)
    => FullCompliance

\* C6 amended: with honest private agents only, no audits and the error
\* model disabled, the record of every step has private compliance rate 1.0
\* and tax gap 0.0.
C6_HonestFullComplianceNoErrors ==
  (/\ HonestPrivateOnly
   /\ ~cfg.interventions.audit.enabled
   /\ ~cfg.error_model.enabled
   /\ collected >= 1)
    => FullCompliance

\* C6 witness: such a population has completed more than one step.
C6_Witness ==
  /\ HonestPrivateOnly
  /\ ~cfg.interventions.audit.enabled
  /\ ~cfg.error_model.enabled
  /\ collected > 1
  /\ FullCompliance

\* C7: while an agent carries the outcome of this step's audit, the outcome
\* is compliant = false with penalty = evaded_income * tax_rate *
\* penalty_rate if declared_income < true_income - 0.01, and compliant = true
\* with penalty 0 otherwise; evaded income 1000.00 at tax rate 0.3 and
\* penalty rate 3 gives 900.00.
C7_AuditPenalty ==
  pc # "decide" =>
    \A i \in DOMAIN agents :
      LET a == agents[i]
          o == a.interventions.audit
      IN o # None =>
           /\ IF a.declared_income < a.true_income - Eps
              THEN /\ ~o.compliant
                   /\ o.penalty = FxMul((a.true_income - a.declared_income)
                                          * cfg.enforcement.tax_rate,
                                        cfg.enforcement.penalty_rate)
              ELSE o.compliant /\ o.penalty = 0
           /\ (/\ a.true_income - a.declared_income = 1000 * 100
               /\ cfg.enforcement.tax_rate = Pct(30)
               /\ cfg.enforcement.penalty_rate = Real(3))
                => o.penalty = 900 * 100 * Fx

\* C7 witness: an audited agent that evaded 1000.00 carries a penalty, and an
\* audited compliant agent carries none.
C7_Witness ==
  /\ pc = "update_norms"
  /\ \E i \in DOMAIN agents :
       /\ agents[i].interventions.audit # None
       /\ agents[i].true_income - agents[i].declared_income = 1000 * 100
       /\ agents[i].interventions.audit.penalty > 0
  /\ \E i \in DOMAIN agents :
       /\ agents[i].interventions.audit # None
       /\ agents[i].interventions.audit.compliant

\* C10 as stated: once the model is constructed, closeness_centrality is
\* defined on every agent, so NetworkAudit.select can read it.
C10_CentralityDefined ==
  pc # "new" =>
    \A i \in DOMAIN agents : "closeness_centrality" \in agents[i].attributes

\* An occupation and its position in the per-occupation metrics.
OccupationIndex == [private |-> 1, business |-> 2]

\* C15: in a model without private agents or without business agents no
\* step divides by zero (the divisions of the metrics and of the selection
\* are evaluated in every step and a step fails only on a missing attribute):
\* every audit strategy selects no agent from the empty list, and every
\* record holds for the empty occupation the defaults 0.0 for the compliance
\* rate, the tax morale and FOUR and 1.0 for the average declaration ratio.
C15_EmptyGroupDefaults ==
  \A occ \in Occupations :
    (pc # "new" /\ IdsOf(agents, occ) = {}) =>
      /\ failure \in {"none", "AttributeError"}
      /\ \A name \in AUDIT_STRATEGIES :
           AuditStrategy_select(name, agents, <<>>, cfg.interventions.audit.rate[occ]) = {<<>>}
      /\ results["audit"].present =>
           \A k \in DOMAIN results["audit"].agents :
             agents[results["audit"].agents[k]].occupation # occ
      /\ collected >= 1 =>
           /\ last_record.Compliance_Rate[OccupationIndex[occ]] = 0
           /\ last_record.Tax_Morale[OccupationIndex[occ]] = 0
           /\ last_record.Avg_FOUR[OccupationIndex[occ]] = 0
           /\ last_record.Avg_Declaration_Ratio[OccupationIndex[occ]] = Fx

\* C15 witness: a step of a model without private agents has audited a
\* business agent and collected its record.
C15_Witness ==
  /\ AfterStep
  /\ collected >= 1
  /\ IdsOf(agents, "private") = {}
  /\ IdsOf(agents, "business") # {}
  /\ last_record.Audits[2] >= 1
  /\ last_record.Avg_Declaration_Ratio = <<Fx, Fx>>

\* The order in which step() moves from phase to phase; a failed select ends
\* the step.
PhaseSuccession ==
  {<<"new", "ready">>, <<"ready", "decide">>, <<"decide", "interventions">>,
   <<"interventions", "update_norms">>, <<"update_norms", "update_all">>,
   <<"update_all", "ready">>, <<"interventions", "failed">>}

\* What one transition of the step machine may do in the phase it is in.
PhaseStep ==
  /\ pc' # pc => <<pc, pc'>> \in PhaseSuccession
  \* the snapshot is taken for every agent before any agent decides
  /\ (pc = "ready" /\ pc' = "decide") =>
       /\ pending' = DOMAIN agents
       /\ \A i \in DOMAIN agents :
            /\ agents'[i].prev_evasion_rate = get_evasion_rate(agents[i], cfg)
            /\ agents'[i].declared_income = agents[i].declared_income
  \* decide touches neither the snapshot nor traits nor outcomes, and ends
  \* only when every agent has decided
  /\ pc = "decide" =>
       /\ \A i \in DOMAIN agents :
            /\ agents'[i].prev_evasion_rate = agents[i].prev_evasion_rate
            /\ agents'[i].traits = agents[i].traits
       /\ pc' # "decide" => pending = {}
  \* interventions leave the declarations of the decide phase alone, and an
  \* audit judges the declaration the agent made in this step
  /\ pc = "interventions" =>
       \A i \in DOMAIN agents :
         /\ agents'[i].declared_income = agents[i].declared_income
         /\ (agents[i].interventions.audit = None /\ agents'[i].interventions.audit # None) =>
              agents'[i].interventions.audit.compliant = is_compliant(agents[i])
  \* the belief update changes no declaration and no outcome, and ends only
  \* when every agent is updated; then the record is collected from the
  \* updated agents and the caches are cleared
  /\ pc \in {"update_norms", "update_all"} =>
       /\ \A i \in DOMAIN agents :
            /\ agents'[i].declared_income = agents[i].declared_income
            /\ agents'[i].interventions = agents[i].interventions
       /\ pc' = "ready" =>
            /\ belief_pos > Len(agents)
            /\ agents' = agents
            /\ collected' = collected + 1
            /\ last_record'.Step = current_step
            /\ last_record'.Tax_Morale = calc_tax_morale(agents)
            /\ last_record'.Compliance_Rate = calc_compliance_rate(agents)
            /\ opportunity_cache' = {}
  \* nothing is collected and no cache is cleared before the end of the step
  /\ (pc \in {"ready", "decide", "interventions", "update_norms"}
        \/ (pc = "update_all" /\ pc' # "ready")) =>
       /\ collected' = collected
       /\ opportunity_cache \subseteq opportunity_cache'

\* C17: every step runs its phases in the order snapshot of
\* prev_evasion_rate, decide, interventions, belief update, metric
\* collection, cache invalidation, each phase finishing for all agents
\* before the next begins, so that an audit judges the declaration of the
\* same step and the record shows the traits after the belief update.
C17_PhaseOrder ==
  /\ [][PhaseStep]_vars
  /\ [](AfterStep =>
          /\ last_record.Step = current_step
          /\ last_record.Tax_Morale = calc_tax_morale(agents)
          /\ opportunity_cache = {})

\* C17 witness: a step has ended in which an agent declared less than its
\* income and the audit of that step found it non-compliant, and the record
\* of the step is collected.
C17_Witness ==
  /\ AfterStep
  /\ collected = current_step
  /\ opportunity_cache = {}
  /\ \E i \in DOMAIN agents :
       /\ agents[i].occupation = "business"
       /\ agents[i].interventions.audit # None
       /\ ~agents[i].interventions.audit.compliant
       /\ ~is_compliant(agents[i])

\* self.agents.shuffle_do("step") visiting the agents in the given order,
\* draws[i] being the draws of agent i's decide: the population afterwards.
RECURSIVE shuffle_do(_, _, _, _)
shuffle_do(ag, order, config, draws) ==
  IF order = <<>> THEN ag
  ELSE LET i == Head(order)
           r == Decide(ag, ag[i], config, draws[i].u_error, draws[i].magnitude,
                       draws[i].u_direction)
       IN shuffle_do([ag EXCEPT ![i].declared_income = r.declared,
                                ![i].error_amount = r.error_amount],
                     Tail(order), config, draws)

\* The draws of one decide phase, per agent.
PhaseDraws(ag, config) ==
  {draws \in [DOMAIN ag -> UNION {DecideDraws(ag[i], config) : i \in DOMAIN ag}] :
     \A i \in DOMAIN ag : draws[i] \in DecideDraws(ag[i], config)}

\* The population with everything an agent other than i holds blanked out,
\* except its prev_evasion_rate and its true_income.
Blinded(ag, i) ==
  [j \in DOMAIN ag |->
     IF j = i THEN ag[j]
     ELSE [ag[j] EXCEPT !.declared_income = 0, !.error_amount = 0,
                        !.traits = Traits(Real(1), 0), !.neighbors = <<>>,
                        !.interventions = ResetInterventions]]

\* One decide call: a single agent changes, in declared_income and
\* error_amount only, to what decide returns when it sees of the other
\* agents only prev_evasion_rate and true_income.
DecideIsLocal ==
  pc = "decide" /\ pc' = "decide" =>
    \E i \in DOMAIN agents :
      /\ \A j \in DOMAIN agents \ {i} : agents'[j] = agents[j]
      /\ \E d \in DecideDraws(agents[i], cfg) :
           LET r == Decide(Blinded(agents, i), agents[i], cfg, d.u_error, d.magnitude,
                           d.u_direction)
           IN agents'[i] = [agents[i] EXCEPT !.declared_income = r.declared,
                                            !.error_amount = r.error_amount]

\* C18: a decide call writes only the deciding agent's declared_income and
\* error_amount and reads of the other agents only prev_evasion_rate and
\* true_income; and from the start of every decide phase, for the same draws
\* per agent, every visiting order leaves every agent the same
\* declared_income.
C18_DecideOrderIndependent ==
  /\ [][DecideIsLocal]_vars
  /\ []((pc = "decide" /\ pending = DOMAIN agents) =>
          \A draws \in PhaseDraws(agents, cfg) :
            \A o1, o2 \in Arrangements(DOMAIN agents, Len(agents)) :
              \A i \in DOMAIN agents :
                shuffle_do(agents, o1, cfg, draws)[i].declared_income
                  = shuffle_do(agents, o2, cfg, draws)[i].declared_income)

\* C18 witness: the decide phase of a step has ended; a dishonest agent with
\* a neighbour whose snapshot rate is positive has declared less than its
\* income, and that neighbour has decided too.
C18_Witness ==
  /\ pc = "decide"
  /\ pending = {}
  /\ current_step >= 1
  /\ \E i \in DOMAIN agents :
       /\ agents[i].behavior_type = "dishonest"
       /\ agents[i].declared_income < agents[i].true_income
       /\ \E k \in DOMAIN agents[i].neighbors :
            LET n == agents[i].neighbors[k]
            IN /\ n # i
               /\ agents[n].true_income > 0
               /\ agents[n].prev_evasion_rate > 0
               /\ agents[n].prev_evasion_rate # agents[i].prev_evasion_rate

\* The interventions of the current step have run and the step goes on or
\* has ended.
InterventionsDone == pc \in {"update_norms", "update_all"} \/ AfterStep

\* The agents the intervention selected in the current step.
SelectedBy(name) ==
  IF intervened_this_step[name].present THEN intervened_this_step[name].ids ELSE {}

\* C19: the interventions of a step begin with every agent's outcome map
\* reset; once they have run, agent.interventions[name] is set exactly for
\* the agents the intervention selected in this step, and the belief update
\* treats as audited (the agent itself and its audited neighbours) exactly
\* the agents audited in this step.
C19_OutcomesOfThisStep ==
  /\ [][(pc = "decide" /\ pc' = "interventions") =>
          \A i \in DOMAIN agents : agents'[i].interventions = ResetInterventions]_vars
  /\ [](InterventionsDone =>
          \A i \in DOMAIN agents :
            \A name \in Range(RegisteredInterventions) :
              agents[i].interventions[name] # None <=> i \in SelectedBy(name))
  /\ [](pc = "update_all" =>
          /\ context.audited_agents = SelectedBy("audit")
          /\ \A i \in DOMAIN agents : WasAudited(agents[i]) <=> i \in SelectedBy("audit"))

\* C19 witness: in the belief update of the second step a business agent
\* whose audit history shows the audit of the first step is not audited and
\* holds no audit outcome, while another agent was audited in this step.
C19_Witness ==
  /\ pc = "update_all"
  /\ current_step = 2
  /\ \E i, j \in DOMAIN agents :
       /\ agents[i].size_class = "Small"
       /\ agents[i].audit_history # "geen"
       /\ agents[i].interventions.audit = None
       /\ i \notin context.audited_agents
       /\ j \in context.audited_agents
       /\ agents[j].interventions.audit # None

\* The place of each intervention in the order audit, letter, call,
\* information.
InterventionRank == [audit |-> 1, letter_deterrence |-> 2, call |-> 3, information |-> 4]

\* The interventions run_all has run so far in the step.
HasRun == {name \in DOMAIN results : results[name].present}

\* One iteration of run_all: the enabled intervention of the lowest rank that
\* has not run in this step runs, selects once and applies once to each agent
\* it selected.
RunsNextInOrder ==
  (pc = "interventions" /\ pc' = "interventions") =>
    \E name \in DOMAIN results :
      /\ name \notin HasRun
      /\ ConfigEnabled(cfg, name)
      /\ \A other \in DOMAIN results :
           (ConfigEnabled(cfg, other) /\ InterventionRank[other] < InterventionRank[name])
             => other \in HasRun
      /\ results' = [results EXCEPT ![name] = results'[name]]
      /\ results'[name].present
      /\ Len(results'[name].outcomes) = Len(results'[name].agents)
      /\ \A k, l \in DOMAIN results'[name].agents :
           results'[name].agents[k] = results'[name].agents[l] => k = l
      /\ \A i \in DOMAIN agents :
           IF i \in Range(results'[name].agents)
           THEN agents'[i].interventions[name] # None
           ELSE agents'[i] = agents[i]

\* C20: in each step the enabled interventions run one after another in the
\* order audit, letter, call, information, each selecting once and applying
\* once to each selected agent, and all of them have run when the step goes
\* on; an intervention that is disabled or absent from the configuration
\* never runs, leaves no outcome on any agent and has no entry in the
\* step's results.
C20_EnabledInOrder ==
  /\ [][RunsNextInOrder]_vars
  /\ [](\A name \in Range(RegisteredInterventions) :
          /\ ~ConfigEnabled(cfg, name) =>
               /\ ~results[name].present
               /\ ~intervened_this_step[name].present
               /\ \A i \in DOMAIN agents : agents[i].interventions[name] = None
          /\ (InterventionsDone /\ ConfigEnabled(cfg, name)) =>
               intervened_this_step[name].present)

\* C20 witness: a step with all four interventions enabled has run them all,
\* and each has selected an agent.
C20_Witness ==
  /\ pc = "update_norms"
  /\ \A name \in Range(RegisteredInterventions) :
       /\ ConfigEnabled(cfg, name)
       /\ intervened_this_step[name].present
       /\ intervened_this_step[name].ids # {}

\* C22 as stated: in the context of every belief update the compliance score
\* of an agent is 1 exactly when is_compliant holds for it, and for an agent
\* that is not compliant it is -evaded_income / true_income, which is not
\* positive.
C22_ScoreAgreesWithCompliance ==
  pc = "update_all" =>
    \A i \in DOMAIN agents :
      /\ context.compliance_scores[i] = Fx <=> is_compliant(agents[i])
      /\ ~is_compliant(agents[i]) =>
           /\ context.compliance_scores[i]
                = 0 - ((evaded_income(agents[i]) * Fx) \div agents[i].true_income)
           /\ context.compliance_scores[i] <= 0

\* C23: a business agent's base_risk_score is the clamped sum of the
\* baseline and the deltas of its current attributes, its current
\* audit_history included, and lies in [0.05, 0.90]; an agent audited in the
\* step has the audit history of an administrative or a book audit.
C23_RiskScoreCurrent ==
  \A i \in DOMAIN agents :
    agents[i].occupation = "business" =>
      /\ agents[i].base_risk_score = calculate_base_risk(agents[i], cfg)
      /\ agents[i].base_risk_score >= Pct(5)
      /\ agents[i].base_risk_score <= Pct(90)
      /\ (InterventionsDone /\ agents[i].interventions.audit # None) =>
           agents[i].audit_history \in {"administratief", "boekenonderzoek"}

\* C23 witness: a book audit of this step has moved a micro enterprise with
\* an administrative history to a score the clamp cuts off at 0.90.
C23_Witness ==
  /\ InterventionsDone
  /\ \E i \in DOMAIN agents :
       /\ agents[i].size_class = "Micro"
       /\ agents[i].interventions.audit # None
       /\ agents[i].audit_history = "boekenonderzoek"
       /\ agents[i].base_risk_score = Pct(90)
       /\ agents[i].base_risk_score
            # calculate_base_risk([agents[i] EXCEPT !.audit_history = "administratief"], cfg)

\* effects.get("subjective_audit_prob_temporary", 0.0) of the effects the
\* intervention applied to an agent holding the outcome o.
TemporaryDelta(name, o) ==
  LET config == cfg.interventions[name]
  IN IF name = "audit" THEN 0
     ELSE IF name = "call"
     THEN EffectsGet(IF o.satisfied THEN config.effects.satisfied
                     ELSE config.effects.dissatisfied,
                     "subjective_audit_prob_temporary")
     ELSE EffectsGet(config.effects, "subjective_audit_prob_temporary")

\* The change of agent i's temporary_audit_boost that this step of the
\* program accounts for: the temporary delta of the letter, call or
\* information intervention that has just been applied to i, otherwise none.
BoostChange(i) ==
  IF pc = "interventions" /\ pc' = "interventions" /\ active_pos' = active_pos + 1
  THEN LET name == ActiveInterventions(cfg)[active_pos]
       IN IF agents'[i].interventions[name] # None
          THEN TemporaryDelta(name, agents'[i].interventions[name])
          ELSE 0
  ELSE 0

\* The audit probability p rational_choice_filter works with is at or above
\* the threshold 1 / (1 + penalty_rate).
Deterred(a) ==
  (a.traits.subjective_audit_prob + a.temporary_audit_boost) \div 100
    >= (Fx * Fx) \div (Fx + cfg.enforcement.penalty_rate)

\* C24: temporary_audit_boost changes only when a letter, call or
\* information intervention is applied to the agent, and then by exactly the
\* temporary delta of its effects; no other operation changes it.  The boost
\* an agent holds when it decides counts in the probability of
\* rational_choice_filter: a dishonest agent whose belief plus boost reaches
\* the threshold declares its whole income.
C24_BoostAdditive ==
  /\ [][\A i \in DOMAIN agents \cap DOMAIN agents' :
          agents'[i].temporary_audit_boost
            = agents[i].temporary_audit_boost + BoostChange(i)]_vars
  /\ [][\A i \in DOMAIN agents :
          (pc = "decide" /\ i \in pending /\ i \notin pending'
             /\ agents[i].behavior_type = "dishonest" /\ Deterred(agents[i]))
            => agents'[i].declared_income = agents[i].true_income]_vars

\* C24 witness: in the second step a dishonest agent whose belief alone is
\* below the threshold has decided with the boost of the first step's letter
\* and declared its whole income, falling under no letter of this step.
C24_Witness ==
  /\ current_step = 2
  /\ pc = "update_all"
  /\ \E i \in DOMAIN agents :
       /\ agents[i].behavior_type = "dishonest"
       /\ agents[i].interventions.letter_deterrence = None
       /\ agents[i].interventions.audit = None
       /\ agents[i].temporary_audit_boost = Real(30)
       /\ agents[i].traits.subjective_audit_prob = 0
       /\ Deterred(agents[i])
       /\ agents[i].declared_income = agents[i].true_income

\* C25: under the Hashimzade strategy one update of update_all changes
\* nothing of any agent but the subjective_audit_prob of the agent being
\* updated, and that only if the agent was audited in this step, to exactly
\* 0 or exactly 100.
C25_HashimzadeOnlyAudited ==
  [][(pc = "update_all" /\ cfg.belief_strategy = "hashimzade"
        /\ belief_pos' = belief_pos + 1) =>
       \A i \in DOMAIN agents :
         LET old == agents[i]
             new == agents'[i]
             audited == i \in SelectedBy("audit") /\ i = AgentList[belief_pos]
         IN /\ [new EXCEPT !.traits.subjective_audit_prob =
                             old.traits.subjective_audit_prob] = old
            /\ ~audited => new = old
            /\ audited => new.traits.subjective_audit_prob \in {0, Real(100)}]_vars

\* C25 witness: the Hashimzade update of a step is over; an audited agent
\* has moved to a belief of 100, and a neighbour of it that was not audited
\* and was sent no letter or call holds the belief it was constructed with,
\* which differs from 100.
C25_Witness ==
  /\ pc = "update_all"
  /\ belief_pos > NAgents
  /\ cfg.belief_strategy = "hashimzade"
  /\ \E i, j \in DOMAIN agents :
       /\ i # j
       /\ i \in context.audited_agents
       /\ agents[i].traits.subjective_audit_prob = Real(100)
       /\ agents[i].initial_audit_prob # Real(100)
       /\ j \notin context.audited_agents
       /\ \E k \in DOMAIN agents[j].neighbors : agents[j].neighbors[k] = i
       /\ i \in Range(context.interaction_sets[j])
       /\ agents[j].interventions = ResetInterventions
       /\ agents[j].traits.subjective_audit_prob = agents[j].initial_audit_prob

\* C28: the prev_evasion_rate the agents expose during step t is taken at
\* the entry of the step and nowhere else; for t >= 2 it is the evasion rate
\* of the declaration the agent made in step t-1, and in step 1 it is the
\* rate initialize_evasion_rates computed from the initial-step decision.
C28_SnapshotOfLastDeclaration ==
  [][pc # "new" =>
       \A i \in DOMAIN agents :
         agents'[i].prev_evasion_rate =
           IF pc = "ready" /\ pc' = "decide"
           THEN IF current_step = 0
                THEN initialize_evasion_rates(agents, agents[i], cfg).prev_evasion_rate
                ELSE get_evasion_rate(agents[i], cfg)
           ELSE agents[i].prev_evasion_rate]_vars

\* The agents holding an audit outcome, all or those of one occupation.
HoldAuditOutcome == {i \in DOMAIN agents : agents[i].interventions.audit # None}

HoldAuditOutcomeOf(occ) == {i \in HoldAuditOutcome : agents[i].occupation = occ}

\* The sum of the penalties the audit outcomes on the agents of S record.
RecordedPenalties(S) ==
  SetSum([i \in S |-> agents[i].interventions.audit.penalty], S)

\* C30: the audit intervention's selection holds no agent twice and one
\* outcome per selected agent; once the interventions of a step have run the
\* private and the business penalty total are the penalties recorded on the
\* audited agents of that occupation, their sum is penalties_this_step, the
\* sum of the penalties recorded on all audited agents, and the audit id set
\* of intervened_this_step is the set of agents holding an audit outcome.
C30_PenaltiesAccount ==
  /\ [][(pc = "interventions" /\ results'["audit"].present) =>
          LET selected == results'["audit"].agents
          IN /\ \A j, k \in DOMAIN selected : j # k => selected[j] # selected[k]
             /\ Len(results'["audit"].outcomes) = Len(selected)]_vars
  /\ [](InterventionsDone =>
          /\ penalties_split_this_step[1] + penalties_split_this_step[2]
               = penalties_this_step
          /\ penalties_this_step = RecordedPenalties(HoldAuditOutcome)
          /\ penalties_split_this_step[1] = RecordedPenalties(HoldAuditOutcomeOf("private"))
          /\ penalties_split_this_step[2] = RecordedPenalties(HoldAuditOutcomeOf("business"))
          /\ SelectedBy("audit") = HoldAuditOutcome)

\* C30 witness: a private and a business agent were audited in one step and
\* fined different amounts, and a letter of the same step holds no penalty.
C30_Witness ==
  /\ InterventionsDone
  /\ penalties_split_this_step[1] > 0
  /\ penalties_split_this_step[2] > 0
  /\ penalties_split_this_step[1] # penalties_split_this_step[2]
  /\ Cardinality(HoldAuditOutcome) = 2
  /\ \E i \in DOMAIN agents : agents[i].interventions.letter_deterrence # None

\* ------------------------------------------------------------------------
\* Direct calls of the audit strategies (specification SpecSelect): the
\* strategy is applied to a list of up to MaxList agents at a sampled rate.
\* ------------------------------------------------------------------------

\* The longest list of agents a strategy is called with.
MaxList == 4

\* The rates a strategy is called with.
SelectRates == {Pct(10), Pct(50), Pct(75), Real(1), Pct(150)}

\* The list of the agents 1..n.
IdList(n) == [k \in 1..n |-> k]

SelectInit ==
  /\ pc = "call"
  /\ cfg = DefaultCfg
  /\ \E n \in 0..MaxList :
       /\ agents \in [1..n -> PrivateKinds \cup BusinessKinds(DefaultCfg)]
       /\ \E rate \in SelectRates :
            call_args = [op |-> "select", agents |-> IdList(n), rate |-> rate]
  /\ call_result = [done |-> FALSE]
  /\ context = NoContext
  /\ StepIdle
  /\ SeedIdle

\* The call returns the list out from the named strategy.
Returned(strategy, out) ==
  /\ call_result' = [done |-> TRUE, strategy |-> strategy, raised |-> "none", out |-> out]
  /\ UNCHANGED <<modelVars, call_args, seedVars>>

\* RandomAudit().select(agents, rate)
RandomAuditCall ==
  /\ call_args.op = "select"
  /\ ~call_result.done
  /\ \E out \in RandomAudit_select(call_args.agents, call_args.rate) :
       Returned("random", out)

\* RiskBasedAudit().select(agents, rate)
RiskBasedAuditCall ==
  /\ call_args.op = "select"
  /\ ~call_result.done
  /\ \E out \in RiskBasedAudit_select(agents, call_args.agents, call_args.rate) :
       Returned("risk", out)

\* NetworkAudit().select(agents, rate)
NetworkAuditCall ==
  /\ call_args.op = "select"
  /\ ~call_result.done
  /\ IF NetworkAudit_raises(agents, call_args.agents)
     THEN /\ call_result' = [done |-> TRUE, strategy |-> "network",
                             raised |-> "AttributeError", out |-> <<>>]
          /\ UNCHANGED <<modelVars, call_args, seedVars>>
     ELSE \E out \in NetworkAudit_select(agents, call_args.agents, call_args.rate) :
            Returned("network", out)

SelectNext ==
  \/ RandomAuditCall
  \/ RiskBasedAuditCall
  \/ NetworkAuditCall

SpecSelect == SelectInit /\ [][SelectNext]_vars

\* round(x) of Python for a non-negative x: to the nearest integer, a tie to
\* the even one.
PyRound(x) ==
  LET f == x \div Fx
      r == x % Fx
  IN IF 2 * r > Fx THEN f + 1
     ELSE IF 2 * r < Fx THEN f
     ELSE IF f % 2 = 0 THEN f ELSE f + 1

\* The list has no element twice and every element is one of input.
DistinctFrom(out, input) ==
  /\ \A j, k \in 1..Len(out) : j # k => out[j] # out[k]
  /\ Range(out) \subseteq Range(input)

\* A call of the named strategy has returned a list.
ReturnedFrom(strategy) ==
  /\ call_args.op = "select"
  /\ call_result.done
  /\ call_result.strategy = strategy
  /\ call_result.raised = "none"

\* C8 as stated: RandomAudit.select returns min(n, |agents|) distinct agents
\* of the input with n = max(1, round(rate * |agents|)), all of them when
\* n >= |agents|.
C8_RoundedCount ==
  ReturnedFrom("random") =>
    LET input == call_args.agents
        n == Max(1, PyRound(Len(input) * call_args.rate))
    IN /\ Len(call_result.out) = Min(n, Len(input))
       /\ DistinctFrom(call_result.out, input)
       /\ n >= Len(input) => call_result.out = input

\* C8 amended: RandomAudit.select returns min(n, |agents|) distinct agents of
\* the input with n = max(1, floor(rate * |agents|)), all of them when
\* n >= |agents|.
C8_TruncatedCount ==
  ReturnedFrom("random") =>
    LET input == call_args.agents
        n == Max(1, (Len(input) * call_args.rate) \div Fx)
    IN /\ Len(call_result.out) = Min(n, Len(input))
       /\ DistinctFrom(call_result.out, input)
       /\ n >= Len(input) => call_result.out = input

\* C8 witness: a call on three agents at rate 0.75 returned two of them, and
\* not the first two.
C8_Witness ==
  /\ ReturnedFrom("random")
  /\ Len(call_args.agents) = 3
  /\ call_args.rate = Pct(75)
  /\ Len(call_result.out) = 2
  /\ call_result.out # SubSeq(call_args.agents, 1, 2)

\* The position of x in the list s.
IndexOf(s, x) == CHOOSE k \in 1..Len(s) : s[k] = x

\* C9: RiskBasedAudit.select on a list without repetitions returns no agent
\* twice; with n = max(1, floor(rate * |agents|)) and n_private =
\* floor(n * |private| / |agents|) it returns min(n_private, |private|)
\* private agents and min(n - n_private, |business|) business agents, and
\* every unselected business agent has a lower base_risk_score than every
\* selected one, or the same score and a later place in the input.
C9_RiskSplitTopN ==
  ReturnedFrom("risk") =>
    LET input == call_args.agents
        out == call_result.out
        private == {i \in Range(input) : agents[i].occupation = "private"}
        business == Range(input) \ private
        n == Max(1, (Len(input) * call_args.rate) \div Fx)
        n_private == IF input = <<>> THEN 0
                     ELSE (n * Cardinality(private)) \div Len(input)
        chosen == Range(out) \cap business
    IN /\ DistinctFrom(out, input)
       /\ Cardinality(Range(out) \cap private) = Min(n_private, Cardinality(private))
       /\ Cardinality(chosen) = Min(n - n_private, Cardinality(business))
       /\ \A s \in chosen, u \in business \ chosen :
            \/ agents[u].base_risk_score < agents[s].base_risk_score
            \/ /\ agents[u].base_risk_score = agents[s].base_risk_score
               /\ IndexOf(input, u) > IndexOf(input, s)

\* C9 witness: a call returned a private agent and a business agent, leaving
\* out a business agent of a lower score that precedes the chosen one in the
\* input.
C9_Witness ==
  /\ ReturnedFrom("risk")
  /\ \E p, s \in Range(call_result.out) :
       /\ agents[p].occupation = "private"
       /\ agents[s].occupation = "business"
  /\ \E s \in Range(call_result.out), u \in Range(call_args.agents) \ Range(call_result.out) :
       /\ agents[s].occupation = "business"
       /\ agents[u].occupation = "business"
       /\ agents[u].base_risk_score < agents[s].base_risk_score
       /\ u < s

\* ------------------------------------------------------------------------
\* Direct calls of BeliefStrategy.update_all (specification SpecBelief): the
\* belief-update phase of a first step, entered with a sampled audited set,
\* sampled interaction sets and sampled draws, run over the agent list in a
\* sampled order.
\* ------------------------------------------------------------------------

\* The belief strategies update_all is called for.
BeliefConfigs == {CfgAudit, [CfgAudit EXCEPT !.belief_strategy = "hashimzade"]}

\* The population as the first step leaves it when update_norms is entered:
\* every agent has decided, and the agents of the set audited carry their
\* audit outcome.
BeforeUpdate(population, config, audited) ==
  LET decided == [i \in DOMAIN population |->
                    LET r == Decide(population, population[i], config, 0, 0, 0)
                    IN [population[i] EXCEPT !.declared_income = r.declared,
                                             !.error_amount = r.error_amount]]
  IN [i \in DOMAIN population |->
        IF i \in audited
        THEN AuditIntervention_apply(decided[i], config, "administratief")
        ELSE decided[i]]

\* The draws of update_all, one record per agent.
AllBeliefDraws(config, ag) ==
  {draws \in [DOMAIN ag -> UNION {BeliefDraws(config, ag[i]) : i \in DOMAIN ag}] :
     \A i \in DOMAIN ag : draws[i] \in BeliefDraws(config, ag[i])}

BeliefInit ==
  /\ pc = "call"
  /\ cfg \in BeliefConfigs
  /\ \E ratio \in BusinessRatios, audited \in SUBSET Agents :
       LET config == [cfg EXCEPT !.simulation.business_ratio = ratio]
       IN \E kinds \in create_agents(config) :
            \E population \in Constructed(kinds, config) :
              /\ agents = BeforeUpdate(population, cfg, audited)
              /\ \E sets \in InteractionSets(agents) :
                   context = UpdateContext(agents, sets, audited)
  /\ \E order \in Arrangements(Agents, NAgents), draws \in AllBeliefDraws(cfg, agents) :
       call_args = [op |-> "update_all", before |-> agents, order |-> order,
                    draws |-> draws]
  /\ call_result = [done |-> FALSE]
  /\ StepIdle
  /\ SeedIdle

\* belief_strategy.update_all(agents_list, context) with the list in the
\* sampled order.
UpdateAllCall ==
  /\ call_args.op = "update_all"
  /\ ~call_result.done
  /\ agents' = update_all(agents, call_args.order, context, cfg, call_args.draws)
  /\ call_result' = [done |-> TRUE]
  /\ UNCHANGED <<opportunity_cache, pc, cfg, current_step, pending, active_pos, results,
                 intervened_this_step, penalties_this_step, penalties_split_this_step,
                 context, belief_pos, collected, last_record, failure>>
  /\ UNCHANGED <<call_args, seedVars>>

BeliefNext == UpdateAllCall

SpecBelief == BeliefInit /\ [][BeliefNext]_vars

\* C1 as stated: the traits of all agents after update_all are the same for
\* every iteration order of the agent list, given the same interaction sets,
\* audited set and draws per agent.
C1_OrderIndependent ==
  (call_args.op = "update_all" /\ call_result.done) =>
    \A other \in Arrangements(Agents, NAgents) :
      \A i \in Agents :
        agents[i].traits =
          update_all(call_args.before, other, context, cfg, call_args.draws)[i].traits

\* ------------------------------------------------------------------------
\* Two runs with one seed and one configuration (specification SpecDet).
\* np.random.seed(seed) seeds numpy's global generator, which the Python code
\* draws from: np_stream holds the values it yields after construction, and
\* sampled what construction drew from it.  Two generators are not seeded:
\* super().__init__() is called without the seed, so the model's self.random,
\* which shuffle_do shuffles with, starts from system entropy; and
\* compute_edges_numba is compiled, so its np.random is the compiler's own
\* generator.  Their outcomes stay free choices in both runs.
\* ------------------------------------------------------------------------

\* The period of the seeded generator's stream.
StreamLen == 4

\* The configuration of the two runs: one private and one business agent,
\* Hashimzade beliefs, error model on, no intervention, one step.
CfgDet ==
  [DefaultCfg EXCEPT
     !.simulation.n_steps = 1,
     !.belief_strategy = "hashimzade",
     !.interventions.audit.enabled = FALSE]

\* The k-th value np.random.random() yields from the current position.
NpRandom(k) == np_stream[((np_pos + k - 1) % StreamLen) + 1]

\* np.random.uniform(lo, hi) for the generator's value u.
NpUniform(lo, hi, u) == lo + FxMul(hi - lo, u)

\* The draws behavior.decide(agent) takes from the seeded generator, and how
\* many values it consumes.
NpDecideDraws(a, config) ==
  LET mag == config.error_model.magnitude
      u_error == IF DrawsError(a, config) THEN NpRandom(1) ELSE 0
      amount == DrawsAmount(a, config, u_error)
  IN [draws |-> [u_error |-> u_error,
                 magnitude |-> IF amount THEN NpUniform(mag.min, mag.max, NpRandom(2)) ELSE 0,
                 u_direction |-> IF amount THEN NpRandom(3) ELSE 0],
      consumed |-> IF amount THEN 3 ELSE IF DrawsError(a, config) THEN 1 ELSE 0]

\* The values update_norms has consumed before it reaches agent i: one per
\* neighbour of every agent before i in the list.
RECURSIVE MaskOffset(_, _)
MaskOffset(ag, i) ==
  IF i <= 1 THEN 0 ELSE MaskOffset(ag, i - 1) + Len(ag[i - 1].neighbors)

\* The interaction sets update_norms draws from the seeded generator:
\* mask = np.random.random(len(neighbors)) < 0.5
NpInteractionSets(ag) ==
  [i \in DOMAIN ag |->
     LET ns == ag[i].neighbors
     IN SelectIn(ns, {ns[k] : k \in {j \in 1..Len(ns) :
                                       NpRandom(MaskOffset(ag, i) + j) < Pct(50)}})]

\* The draws HashimzadeStrategy.update takes from the seeded generator for
\* agent a, and how many values it consumes.
NpBeliefDraws(config, a) ==
  LET occ_cfg == config.pso_update.occ[a.occupation]
  IN [draws |-> [u_audit |-> IF WasAudited(a) THEN NpRandom(1) ELSE 0,
                 u_unfair |-> 0, u_phone |-> 0, u_satisfied |-> 0,
                 satisfaction |-> occ_cfg.webcare_mean - 2 * occ_cfg.webcare_std,
                 u_huba |-> 0],
      consumed |-> IF WasAudited(a) THEN 1 ELSE 0]

\* The seed fixes the stream and what construction samples with numpy: the
\* agents' kinds and the target degrees.
DetInit ==
  /\ pc = "new"
  /\ cfg = CfgDet
  /\ agents = <<>>
  /\ context = NoContext
  /\ StepIdle
  /\ CallIdle
  /\ np_stream \in [1..StreamLen -> UDraws]
  /\ np_pos = 0
  /\ run = 1
  /\ \E kinds \in create_agents(CfgDet),
        target_degrees \in [Agents -> sample_degree(CfgDet.network)] :
       sampled = [kinds |-> kinds, target_degrees |-> target_degrees]
  /\ metrics = <<>>
  /\ first_metrics = <<>>

\* TaxComplianceModel(config, seed): np.random.seed(seed) rewinds the stream;
\* the edges come from compute_edges_numba.
DetConstruct ==
  /\ pc = "new"
  /\ run \in {1, 2}
  /\ \E population \in ConstructedWith(sampled.kinds, cfg, sampled.target_degrees) :
       ConstructModel(cfg, population)
  /\ np_pos' = 0
  /\ UNCHANGED <<callVars, np_stream, run, sampled, metrics, first_metrics>>

DetStepBegin ==
  /\ run \in {1, 2}
  /\ BeginStep
  /\ UNCHANGED <<callVars, seedVars>>

\* shuffle_do visits agent i next: the order comes from self.random, the
\* draws of decide from the seeded stream.
DetAgentStep(i) ==
  /\ run \in {1, 2}
  /\ pc = "decide"
  /\ i \in pending
  /\ LET d == NpDecideDraws(agents[i], cfg)
     IN /\ StepAgent(i, d.draws)
        /\ np_pos' = np_pos + d.consumed
  /\ UNCHANGED <<callVars, np_stream, run, sampled, metrics, first_metrics>>

DetResetAgents ==
  /\ run \in {1, 2}
  /\ reset_agents
  /\ UNCHANGED <<callVars, seedVars>>

DetAggregateInterventions ==
  /\ run \in {1, 2}
  /\ aggregate_interventions
  /\ UNCHANGED <<callVars, seedVars>>

DetUpdateNorms ==
  /\ run \in {1, 2}
  /\ pc = "update_norms"
  /\ update_norms(NpInteractionSets(agents))
  /\ np_pos' = np_pos + MaskOffset(agents, NAgents + 1)
  /\ UNCHANGED <<callVars, np_stream, run, sampled, metrics, first_metrics>>

DetBeliefUpdate ==
  /\ run \in {1, 2}
  /\ pc = "update_all"
  /\ belief_pos <= NAgents
  /\ LET d == NpBeliefDraws(cfg, agents[AgentList[belief_pos]])
     IN /\ update_next(d.draws)
        /\ np_pos' = np_pos + d.consumed
  /\ UNCHANGED <<callVars, np_stream, run, sampled, metrics, first_metrics>>

\* datacollector.collect(self): the record joins the run's metric sequence.
DetCollect ==
  /\ run \in {1, 2}
  /\ collect
  /\ metrics' = Append(metrics, last_record')
  /\ UNCHANGED <<callVars, np_stream, np_pos, run, sampled, first_metrics>>

\* The first run is over (run() has made its n_steps steps): its metrics are
\* kept and a second model is about to be constructed with the same seed and
\* configuration.
DetSecondRun ==
  /\ run = 1
  /\ pc = "ready"
  /\ current_step >= cfg.simulation.n_steps
  /\ run' = 2
  /\ first_metrics' = metrics
  /\ metrics' = <<>>
  /\ pc' = "new"
  /\ agents' = <<>>
  /\ context' = NoContext
  /\ current_step' = 0
  /\ pending' = {}
  /\ active_pos' = 0
  /\ results' = NoResults
  /\ intervened_this_step' = NoIntervened
  /\ penalties_this_step' = 0
  /\ penalties_split_this_step' = <<0, 0>>
  /\ belief_pos' = 0
  /\ collected' = 0
  /\ last_record' = NoRecord
  /\ UNCHANGED <<cfg, failure, opportunity_cache, callVars, np_stream, np_pos, sampled>>

DetNext ==
  \/ DetConstruct
  \/ DetStepBegin
  \/ \E i \in Agents : DetAgentStep(i)
  \/ DetResetAgents
  \/ DetAggregateInterventions
  \/ DetUpdateNorms
  \/ DetBeliefUpdate
  \/ DetCollect
  \/ DetSecondRun

SpecDet == DetInit /\ [][DetNext]_vars

\* C2 as stated: two runs constructed with the same seed and the same
\* configuration produce identical per-step metric sequences.
C2_SameSeedSameMetrics ==
  (run = 2 /\ pc = "ready" /\ current_step >= cfg.simulation.n_steps) =>
    metrics = first_metrics

\* ------------------------------------------------------------------------
\* Direct calls of the lognormal builder (specification SpecNetwork):
\* build_lognormal on a list of up to MaxNodes agents, for a sampled vector
\* of target degrees and a homophily.
\* ------------------------------------------------------------------------

\* The longest list of agents the builder is called with.
MaxNodes == 3

\* The homophily values the builder is called with.
Homophilies == {0, Pct(50), Pct(80), Real(1), Pct(150)}

NetworkInit ==
  /\ pc = "call"
  /\ cfg = DefaultCfg
  /\ \E n \in 0..MaxNodes :
       /\ agents \in [1..n -> PrivateKinds \cup BusinessKinds(DefaultCfg)]
       /\ \E target_degrees \in [1..n -> 0..MaxNodes], homophily \in Homophilies :
            call_args = [op |-> "build_lognormal", target_degrees |-> target_degrees,
                         homophily |-> homophily]
  /\ call_result = [done |-> FALSE]
  /\ context = NoContext
  /\ StepIdle
  /\ SeedIdle

\* build_lognormal(agents) once the degrees are sampled: raw_edges from
\* compute_edges_numba, then the neighbour lists read off the graph.
BuildLognormalCall ==
  /\ call_args.op = "build_lognormal"
  /\ ~call_result.done
  /\ LET group_ids == [i \in DOMAIN agents |-> group_key(agents[i])]
     IN \E edges \in compute_edges_numba(group_ids, call_args.target_degrees,
                                         call_args.homophily) :
          /\ agents' = [i \in DOMAIN agents |->
                          [agents[i] EXCEPT !.neighbors = NeighborsOf(edges, i)]]
          /\ call_result' = [done |-> TRUE, edges |-> edges]
  /\ UNCHANGED <<opportunity_cache, pc, cfg, current_step, pending, active_pos, results,
                 intervened_this_step, penalties_this_step, penalties_split_this_step,
                 context, belief_pos, collected, last_record, failure>>
  /\ UNCHANGED <<call_args, seedVars>>

NetworkNext == BuildLognormalCall

SpecNetwork == NetworkInit /\ [][NetworkNext]_vars

\* The builder has returned.
Built == call_args.op = "build_lognormal" /\ call_result.done

\* C11: the lognormal builder emits no pair (i, i), emits no pair twice in
\* either orientation, and leaves a in b.neighbors iff b in a.neighbors, for
\* every agent list, target-degree vector and homophily.
C11_SimpleUndirected ==
  Built =>
    LET edges == call_result.edges
    IN /\ \A k \in 1..Len(edges) : edges[k][1] # edges[k][2]
       /\ \A j, k \in 1..Len(edges) :
            j # k => /\ edges[j] # edges[k]
                     /\ edges[j] # <<edges[k][2], edges[k][1]>>
       /\ \A a, b \in DOMAIN agents :
            (b \in Range(agents[a].neighbors)) <=> (a \in Range(agents[b].neighbors))

\* C11 witness: three agents each wanting two neighbours end up as a
\* triangle: the second agent, already linked to the first, was linked only
\* to the third.
C11_Witness ==
  /\ Built
  /\ Len(agents) = 3
  /\ \A i \in 1..3 : call_args.target_degrees[i] = 2
  /\ call_result.edges = <<<<1, 2>>, <<1, 3>>, <<2, 3>>>>

\* The nx.Graph edge set of a list of emitted pairs.
EdgeSet(edges) == {{edges[k][1], edges[k][2]} : k \in 1..Len(edges)}

\* The pairs compute_edges_numba had emitted when agent i's turn began.
EmittedBefore(edges, i) == SelectSeq(edges, LAMBDA e : e[1] < i)

\* The group ids build_lognormal hands to compute_edges_numba.
GroupIds == [i \in DOMAIN agents |-> group_key(agents[i])]

\* C26: for the same agents, target degrees and homophily, at every agent's
\* turn the naive builder computes on the graph built so far the same needed
\* count, the same same-group and other-group candidate sets and the same
\* sample sizes as the adjacency-matrix builder, the edges the latter picks
\* are a choice the naive builder can make, and the two builders can return
\* the same edge sets.
C26_BuildersEquivalent ==
  Built =>
    LET edges == call_result.edges
        td == call_args.target_degrees
        h == call_args.homophily
    IN /\ \A i \in DOMAIN agents :
            LET before == EmittedBefore(edges, i)
                n == numba_turn(i, before, GroupIds, td, h)
                p == python_turn(i, EdgeSet(before), agents, td, h)
            IN /\ p.needed = n.needed
               /\ n.needed > 0 =>
                    /\ p = n
                    /\ EdgeSet(EmittedBefore(edges, i + 1))
                         \in UNION {add_edges(g1, i, p.other_cands, p.needed - p.n_same) :
                                      g1 \in add_edges(EdgeSet(before), i, p.same_cands, p.n_same)}
       /\ {EdgeSet(e) : e \in compute_edges_numba(GroupIds, td, h)}
            = build_lognormal_python(agents, td, h)

\* C26 witness: three agents of two groups, each wanting two neighbours under
\* a homophily of 0.5, have been linked; the second agent's turn began with
\* an edge it already had and candidates in one partition only.
C26_Witness ==
  /\ Built
  /\ Len(agents) = 3
  /\ call_args.homophily = Pct(50)
  /\ \A i \in 1..3 : call_args.target_degrees[i] = 2
  /\ GroupIds[1] = GroupIds[3]
  /\ GroupIds[1] # GroupIds[2]
  /\ call_result.edges = <<<<1, 3>>, <<1, 2>>, <<2, 3>>>>
  /\ Cardinality(build_lognormal_python(agents, call_args.target_degrees,
                                        call_args.homophily)) = 1

\* The agents agent i could be linked to when its turn began: not i itself
\* and not yet connected to i, of i's group or of another group.
Candidates(edges, i, same) ==
  {j \in DOMAIN agents :
     /\ j # i
     /\ ~\E k \in 1..Len(EmittedBefore(edges, i)) :
           {EmittedBefore(edges, i)[k][1], EmittedBefore(edges, i)[k][2]} = {i, j}
     /\ (GroupIds[j] = GroupIds[i]) = same}

\* The agents linked to agent i at its own turn, of i's group or of another.
AddedAtTurn(edges, i, same) ==
  {edges[k][2] : k \in {n \in 1..Len(edges) :
                          /\ edges[n][1] = i
                          /\ (GroupIds[edges[n][2]] = GroupIds[i]) = same}}

\* C27: for a homophily in [0, 1], at agent i's turn with needed =
\* target_degree[i] - current_degree[i] > 0 and n_same = floor(needed x
\* homophily) the builder links i to min(n_same, #same-group candidates)
\* same-group agents and to min(needed - n_same, #other-group candidates)
\* other-group agents, and to nobody when needed <= 0; with homophily 1.0
\* every edge joins two agents of one group.
C27_PartitionQuotas ==
  (Built /\ call_args.homophily >= 0 /\ call_args.homophily <= Real(1)) =>
    LET edges == call_result.edges
    IN /\ \A i \in DOMAIN agents :
            LET needed == call_args.target_degrees[i]
                            - EdgeDegree(EmittedBefore(edges, i), i)
                n_same == (needed * call_args.homophily) \div Fx
            IN IF needed > 0
               THEN /\ Cardinality(AddedAtTurn(edges, i, TRUE))
                         = Min(n_same, Cardinality(Candidates(edges, i, TRUE)))
                    /\ Cardinality(AddedAtTurn(edges, i, FALSE))
                         = Min(needed - n_same, Cardinality(Candidates(edges, i, FALSE)))
                    /\ AddedAtTurn(edges, i, TRUE) \subseteq Candidates(edges, i, TRUE)
                    /\ AddedAtTurn(edges, i, FALSE) \subseteq Candidates(edges, i, FALSE)
               ELSE AddedAtTurn(edges, i, TRUE) \cup AddedAtTurn(edges, i, FALSE) = {}
       /\ call_args.homophily = Real(1) =>
            \A k \in 1..Len(edges) : GroupIds[edges[k][1]] = GroupIds[edges[k][2]]

\* C27 witness: under a homophily of 0.5 the first of three agents wanted
\* two neighbours, one of each kind, and had no same-group candidate; it was
\* linked to one agent only although two other-group candidates were free.
C27_Witness ==
  /\ Built
  /\ Len(agents) = 3
  /\ call_args.homophily = Pct(50)
  /\ call_args.target_degrees[1] = 2
  /\ Candidates(call_result.edges, 1, TRUE) = {}
  /\ Candidates(call_result.edges, 1, FALSE) = {2, 3}
  /\ Cardinality(AddedAtTurn(call_result.edges, 1, FALSE)) = 1
  /\ AddedAtTurn(call_result.edges, 1, TRUE) = {}

\* C29: in the built graph no agent has more neighbours than its own target
\* degree, and so none has more than the largest degree that was sampled.
C29_DegreeWithinTarget ==
  Built =>
    \A i \in DOMAIN agents :
      /\ EdgeDegree(call_result.edges, i) <= call_args.target_degrees[i]
      /\ \E j \in DOMAIN agents :
           EdgeDegree(call_result.edges, i) <= call_args.target_degrees[j]

\* ------------------------------------------------------------------------
\* Direct calls of rational_choice_filter (specification SpecFilter): the
\* filter is applied to one agent with a sampled audit belief, temporary
\* boost and risk aversion, under a sampled penalty rate, for a sampled
\* willingness.
\* ------------------------------------------------------------------------

\* The audit beliefs, temporary boosts, penalty rates and willingness values
\* the filter is called with.
FilterBeliefs == {0, Real(10), Real(24), Real(25), Real(26), Real(50), Real(100)}

FilterBoosts == {0 - Real(10), 0, Real(10)}

FilterPenaltyRates == {Real(1), Real(3)}

FilterWillingness == {0, 1, 12345, 300000}

FilterInit ==
  /\ pc = "call"
  /\ \E f \in FilterPenaltyRates : cfg = [DefaultCfg EXCEPT !.enforcement.penalty_rate = f]
  /\ \E kind \in PrivateKinds \cup BusinessKinds(DefaultCfg),
        belief \in FilterBeliefs, boost \in FilterBoosts, rho \in {Real(1), Real(5)} :
       agents = <<[kind EXCEPT !.traits.subjective_audit_prob = belief,
                               !.temporary_audit_boost = boost,
                               !.traits.risk_aversion = rho]>>
  /\ \E willingness \in FilterWillingness :
       call_args = [op |-> "rational_choice_filter", willingness |-> willingness]
  /\ call_result = [done |-> FALSE]
  /\ context = NoContext
  /\ StepIdle
  /\ SeedIdle

\* rational_choice_filter(agent, willingness)
RationalChoiceCall ==
  /\ call_args.op = "rational_choice_filter"
  /\ ~call_result.done
  /\ call_result' = [done |-> TRUE,
                     out |-> rational_choice_filter(agents[1], call_args.willingness, cfg)]
  /\ UNCHANGED <<modelVars, call_args, seedVars>>

FilterNext == RationalChoiceCall

SpecFilter == FilterInit /\ [][FilterNext]_vars

\* C12: for a positive willingness, with p = (subjective_audit_prob +
\* temporary_audit_boost) / 100 and threshold = 1 / (1 + penalty_rate), the
\* filter returns 0 when p >= threshold and the full willingness when
\* p <= 0; an audit belief of 0 under penalty rate 3.0 gives the full
\* willingness.  (p >= threshold is written as p_raw * (1 + f) >= 100.)
C12_RationalChoiceEnds ==
  (/\ call_args.op = "rational_choice_filter"
   /\ call_result.done
   /\ call_args.willingness > 0) =>
    LET a == agents[1]
        p_raw == a.traits.subjective_audit_prob + a.temporary_audit_boost
        f == cfg.enforcement.penalty_rate
    IN /\ p_raw * (Fx + f) >= 100 * Fx * Fx => call_result.out = 0
       /\ p_raw <= 0 => call_result.out = call_args.willingness
       /\ (a.traits.subjective_audit_prob = 0 /\ a.temporary_audit_boost = 0
           /\ f = Real(3)) => call_result.out = call_args.willingness

\* C12 witness: a dishonest business agent with audit belief 0 and no boost,
\* under penalty rate 3.0, evades its whole positive willingness.
C12_Witness ==
  /\ call_args.op = "rational_choice_filter"
  /\ call_result.done
  /\ agents[1].occupation = "business"
  /\ agents[1].behavior_type = "dishonest"
  /\ agents[1].traits.subjective_audit_prob = 0
  /\ agents[1].temporary_audit_boost = 0
  /\ cfg.enforcement.penalty_rate = Real(3)
  /\ call_args.willingness = 300000
  /\ call_result.out = 300000

\* The agent with the given audit belief and risk aversion and no boost.
WithBelief(a, belief, rho) ==
  [a EXCEPT !.traits.subjective_audit_prob = belief,
            !.temporary_audit_boost = 0,
            !.traits.risk_aversion = rho]

\* Every audit belief, in steps of 0.1, whose p lies strictly between 0 and
\* the threshold 1 / (1 + penalty_rate).
InteriorBeliefs(config) ==
  {belief \in {k * 100 : k \in 1..Fx} :
     belief \div 100 < (Fx * Fx) \div (Fx + config.enforcement.penalty_rate)}

\* The risk aversions of the [1,5] domain, in steps of 0.5.
RiskAversions == {k * Pct(50) : k \in 2..10}

\* The call was made with a positive willingness and 0 < p < threshold.
InteriorCall ==
  /\ call_args.op = "rational_choice_filter"
  /\ call_result.done
  /\ call_args.willingness > 0
  /\ LET p == (agents[1].traits.subjective_audit_prob + agents[1].temporary_audit_boost)
                \div 100
     IN p > 0 /\ p < (Fx * Fx) \div (Fx + cfg.enforcement.penalty_rate)

\* C21 as stated: for 0 < p < threshold the filter returns 0 or the whole
\* willingness, and under the penalty rate of the call some belief and risk
\* aversion of the domain yield full deterrence and some yield full evasion.
C21_GateDecidesBothWays ==
  (call_args.op = "rational_choice_filter" /\ call_result.done) =>
    /\ InteriorCall => call_result.out \in {0, call_args.willingness}
    /\ \E belief \in InteriorBeliefs(cfg), rho \in RiskAversions :
         rational_evasion_rate(WithBelief(agents[1], belief, rho), cfg) = 0
    /\ \E belief \in InteriorBeliefs(cfg), rho \in RiskAversions :
         rational_evasion_rate(WithBelief(agents[1], belief, rho), cfg) = Fx

\* ------------------------------------------------------------------------
\* Construction from configurations that name the topology, the strategies
\* and the behaviour types (specification SpecConfig), followed by the step
\* machine.
\* ------------------------------------------------------------------------

\* Configurations over one step of two agents, one private and one business,
\* with the names __init__, the agents and the audit intervention resolve.
\* distribution holds the keys of behaviors.distribution that have a positive
\* probability.
NamedCfg(topology, audit_strategy, selection_strategy, belief_strategy, distribution) ==
  [enforcement |-> [tax_rate |-> Pct(30), penalty_rate |-> Real(3),
                    audit_strategy |-> audit_strategy],
   behaviors |-> [override_distribution |-> distribution # {},
                  distribution |-> distribution]]
  @@ [CfgAudit EXCEPT
        !.simulation.n_steps = 1,
        !.network.topology = topology,
        !.belief_strategy = belief_strategy,
        !.interventions.audit.selection_strategy = selection_strategy]

NamedConfigs ==
  {NamedCfg(topology, audit_strategy, selection_strategy, belief_strategy, distribution) :
     topology \in Topologies \cup {"smallworld"},
     audit_strategy \in {"random", "targeted"},
     selection_strategy \in {"random", "targeted"},
     belief_strategy \in {"custom", "bayesian"},
     distribution \in {{}, {"honest", "strategic"}}}

\* assign_behavior: the behaviour types it can pass to create_behavior.
assign_behavior(config) ==
  IF config.behaviors.override_distribution
  THEN config.behaviors.distribution
  ELSE BehaviorTypes

\* NetworkBuilder.build with build_erdos building as build_lognormal does.
build_raises_erdos_built(net) ==
  IF net.topology \notin Topologies THEN "ValueError"
  ELSE IF net.topology = "powerlaw" THEN "NotImplementedError"
  ELSE "none"

\* NetworkBuilder.build: the exception it raises for the topology, if any
\* (build_erdos and build_powerlaw raise NotImplementedError).
build_raises(net) ==
  IF net.topology \notin Topologies THEN "ValueError"
  ELSE IF net.topology \in {"erdos", "powerlaw"} THEN "NotImplementedError"
  ELSE "none"

\* __init__ ends with an exception; population holds the agents created so
\* far.
Raise(exception, population) ==
  /\ pc' = "failed"
  /\ failure' = exception
  /\ agents' = population
  /\ UNCHANGED <<opportunity_cache, current_step, pending, active_pos, results, intervened_this_step,
                 penalties_this_step, penalties_split_this_step, context,
                 belief_pos, collected, last_record>>

\* TaxComplianceModel.__init__ with every lookup by name it makes, in the
\* order it makes them.
ConfigConstruct ==
  /\ pc = "new"
  /\ \E config \in NamedConfigs :
       /\ cfg' = config
       /\ IF config.enforcement.audit_strategy \notin AUDIT_STRATEGIES
          THEN Raise("ValueError", <<>>)
          ELSE IF config.belief_strategy \notin BELIEF_STRATEGIES
          THEN Raise("KeyError", <<>>)
          ELSE \E types \in [1..config.simulation.n_agents -> assign_behavior(config)] :
                 IF \E i \in DOMAIN types : types[i] \notin BehaviorTypes
                 THEN Raise("ValueError", <<>>)
                 ELSE \E kinds \in create_agents(config) :
                        /\ \A i \in DOMAIN kinds : kinds[i].behavior_type = types[i]
                        /\ IF build_raises(config.network) # "none"
                           THEN Raise(build_raises(config.network),
                                      [i \in DOMAIN kinds |-> apply_boosts(kinds[i], config)])
                           ELSE \E population \in Constructed(kinds, config) :
                                  ConstructModel(config, population)
  /\ UNCHANGED <<callVars, seedVars>>

ConfigNext ==
  \/ ConfigConstruct
  \/ StepBegin
  \/ \E i \in Agents : AgentStep(i)
  \/ ResetAgents
  \/ RunIntervention
  \/ AggregateInterventions
  \/ UpdateNormsBegin
  \/ BeliefUpdate
  \/ Collect

SpecConfig == Init /\ [][ConfigNext]_vars

\* The configuration names a topology, an audit (selection) strategy, a belief
\* strategy or a behaviour type that is not registered.
NamesUnknown(config) ==
  \/ config.network.topology \notin Topologies
  \/ config.enforcement.audit_strategy \notin AUDIT_STRATEGIES
  \/ config.interventions.audit.selection_strategy \notin AUDIT_STRATEGIES
  \/ config.belief_strategy \notin BELIEF_STRATEGIES
  \/ ~(assign_behavior(config) \subseteq BehaviorTypes)

\* C13 as stated: a configuration with an unknown name makes construction
\* fail, before any step, with the descriptive error (ValueError "Unknown
\* ..."), and no step fails because of an unknown strategy name.
C13_UnknownNamesFailFast ==
  /\ (pc # "new" /\ NamesUnknown(cfg)) =>
       (pc = "failed" /\ current_step = 0 /\ failure = "ValueError")
  /\ (pc = "failed" /\ current_step >= 1) => failure # "ValueError"

\* build_network was reached: the lookups __init__ makes before it succeeded
\* and the agents exist.
BuildReached == pc # "new" /\ agents # <<>>

\* C14: building a network with topology "erdos" or "powerlaw" fails with
\* NotImplementedError and leaves every agent's neighbour list empty, as
\* BaseAgent.__init__ set it, and no step follows; a model that is
\* constructed, and any agent that has a neighbour, has topology "lognormal".
C14_OnlyLognormalBuilds ==
  /\ (BuildReached /\ cfg.network.topology \in {"erdos", "powerlaw"}) =>
       /\ pc = "failed"
       /\ current_step = 0
       /\ failure = "NotImplementedError"
       /\ \A i \in DOMAIN agents : agents[i].neighbors = <<>>
  /\ (pc \notin {"new", "failed"}) => cfg.network.topology = "lognormal"
  /\ (\E i \in DOMAIN agents : agents[i].neighbors # <<>>) =>
       cfg.network.topology = "lognormal"

\* C14 witness: construction with topology "erdos" has created two agents
\* and failed in build_network.
C14_Witness ==
  /\ pc = "failed"
  /\ failure = "NotImplementedError"
  /\ cfg.network.topology = "erdos"
  /\ Len(agents) = 2
  /\ \A i \in DOMAIN agents : agents[i].neighbors = <<>>

\* ------------------------------------------------------------------------
\* run(steps) on a constructed model (specification SpecRun)
\* ------------------------------------------------------------------------

\* The steps arguments run is called with: none, or a number.
RunArguments ==
  {[given |-> FALSE, steps |-> 0]}
    \cup {[given |-> TRUE, steps |-> s] : s \in 0..MaxSteps}

\* n = steps or self.n_steps: Python's or yields its right operand when the
\* left one is None or 0.
steps_or_n_steps(arg, config) ==
  IF ~arg.given \/ arg.steps = 0 THEN config.simulation.n_steps ELSE arg.steps

\* Construction for a configuration with random audits and with one or with
\* MaxSteps configured steps.
RunConstruct ==
  /\ pc = "new"
  /\ call_args.op = "none"
  /\ \E n_steps \in {1, MaxSteps} :
       LET config == [CfgAudit EXCEPT !.simulation.n_steps = n_steps]
       IN \E kinds \in create_agents(config) :
            \E population \in Constructed(kinds, config) :
              ConstructModel(config, population)
  /\ UNCHANGED <<callVars, seedVars>>

\* run(steps) is entered: n is computed.
RunCall ==
  /\ pc = "ready"
  /\ call_args.op = "none"
  /\ \E arg \in RunArguments :
       call_args' = [op |-> "run", arg |-> arg, n |-> steps_or_n_steps(arg, cfg),
                     current_step |-> current_step, collected |-> collected]
  /\ call_result' = [done |-> FALSE, iterations |-> 0]
  /\ UNCHANGED <<modelVars, seedVars>>

\* for _ in range(n): self.step(), up to the shuffle.
RunStepBegin ==
  /\ pc = "ready"
  /\ call_args.op = "run"
  /\ ~call_result.done
  /\ call_result.iterations < call_args.n
  /\ step_entry
  /\ call_result' = [call_result EXCEPT !.iterations = @ + 1]
  /\ UNCHANGED <<call_args, seedVars>>

\* The loop of run is exhausted: run returns.
RunReturn ==
  /\ pc = "ready"
  /\ call_args.op = "run"
  /\ ~call_result.done
  /\ call_result.iterations >= call_args.n
  /\ call_result' = [call_result EXCEPT !.done = TRUE]
  /\ UNCHANGED <<modelVars, call_args, seedVars>>

RunNext ==
  \/ RunConstruct
  \/ RunCall
  \/ RunStepBegin
  \/ \E i \in Agents : AgentStep(i)
  \/ ResetAgents
  \/ RunIntervention
  \/ AggregateInterventions
  \/ UpdateNormsBegin
  \/ BeliefUpdate
  \/ Collect
  \/ RunReturn

SpecRun == Init /\ [][RunNext]_vars

\* run has returned.
RunReturned == call_args.op = "run" /\ call_result.done

\* C16 as stated: when run returns, current_step has grown by exactly the
\* steps given, for every given value, and by n_steps when none is given, and
\* one record was collected per step.
C16_RunsExactlySteps ==
  RunReturned =>
    LET asked == IF call_args.arg.given THEN call_args.arg.steps
                 ELSE cfg.simulation.n_steps
    IN /\ current_step - call_args.current_step = asked
       /\ collected - call_args.collected = asked

====
